---- MODULE Spec2Model ----
(***************************************************************************)
(* Registry (TestDB.c) and execution engine (TestRun.c) of the reduced     *)
(* CUnit framework, as a state machine.                                    *)
(*                                                                         *)
(* Pointers are slot numbers: 0 is NULL, i > 0 is the address of element   *)
(* i-1 of the static array the object lives in.  The single static         *)
(* CU_TestRegistry of CU_create_new_registry() has address 1.              *)
(* assert() is compiled in (no NDEBUG): a failed assert() ends the process *)
(* (pc = "aborted").  Elapsed time is not modelled.                        *)
(***************************************************************************)
EXTENDS Integers, Sequences, FiniteSets, TLC

(***************************************************************************)
(* Bounds of the model.                                                    *)
(***************************************************************************)
MAX_NUM_OF_SUITES == 2
MAX_NUM_OF_TESTS == 2
MaxAsserts == 1
MaxTestAsserts == 3
MaxRuns == 1
MaxReruns == 2
MAX_NAME_LEN == 2

NULL == 0
CU_TRUE == TRUE
CU_FALSE == FALSE

VARIABLES
  suites_buf,              \* _suites_buf[]: the CU_Suite slots and their name buffers
  tests_buf,               \* _tests_buf[]: the CU_Test slots and their name buffers
  test_db_storage_info,    \* currSuiteIndex, currTestIndex
  registry,                \* the static CU_TestRegistry of CU_create_new_registry
  f_pTestRegistry,         \* the active registry (NULL or 1)
  f_bTestIsRunning,
  f_pCurSuite,
  f_pCurTest,
  f_run_summary,
  f_failure_list,
  f_last_failure,
  f_failure_on_inactive,
  failure_records_buf,     \* _failure_records_buf[]
  test_run_storage_info,   \* currFailureIndex
  handlers,                \* the seven f_p...MessageHandler slots (TRUE = set)
  f_error_number,          \* framework error state (CU_set_error)
  f_error_action,          \* framework error action (CU_get_error_action)
  pc,                      \* where control is
  fr,                      \* locals of the run functions on the stack
  call,                    \* the last interface call made and what it returned
  order,                   \* the successful add calls, in the order they were made
  hist                     \* what the current run has executed, in order

vars == <<suites_buf, tests_buf, test_db_storage_info, registry, f_pTestRegistry,
          f_bTestIsRunning, f_pCurSuite, f_pCurTest, f_run_summary, f_failure_list,
          f_last_failure, f_failure_on_inactive, failure_records_buf,
          test_run_storage_info, handlers, f_error_number, f_error_action,
          pc, fr, call, order, hist>>

dbVars == <<suites_buf, tests_buf, test_db_storage_info, registry, f_pTestRegistry>>
runVars == <<f_bTestIsRunning, f_pCurSuite, f_pCurTest, f_run_summary, f_failure_list,
             f_last_failure, failure_records_buf, test_run_storage_info>>
cfgVars == <<f_failure_on_inactive, handlers, f_error_action>>
curVars == <<f_bTestIsRunning, f_pCurSuite, f_pCurTest>>
failVars == <<failure_records_buf, test_run_storage_info, f_failure_list,
              f_last_failure, f_run_summary>>
frameVars == <<pc, fr, hist>>

SuiteSlots == 1..MAX_NUM_OF_SUITES
TestSlots == 1..MAX_NUM_OF_TESTS
FailureSlots == 1..MAX_NUM_OF_TESTS

(***************************************************************************)
(* Strings are sequences of character codes; the terminating '\0' is the   *)
(* position after the last element.                                        *)
(***************************************************************************)
toupper(c) == IF c >= 97 /\ c <= 122 THEN c - 32 ELSE c

CharAt(s, i) == IF i <= Len(s) THEN s[i] ELSE 0

RECURSIVE CompareFrom(_, _, _)
CompareFrom(szSrc, szDest, i) ==
  IF CharAt(szSrc, i) # 0 /\ CharAt(szDest, i) # 0
     /\ toupper(CharAt(szSrc, i)) = toupper(CharAt(szDest, i))
  THEN CompareFrom(szSrc, szDest, i + 1)
  ELSE CharAt(szSrc, i) - CharAt(szDest, i)

CU_compare_strings(szSrc, szDest) == CompareFrom(szSrc, szDest, 1)

\* strncpy(pName, strName, MAX_NAME_LEN) into a zeroed name buffer: the buffer
\* holds the first MAX_NAME_LEN characters, and a '\0' after them only when
\* strName is shorter than the buffer.
strncpy(strName) ==
  IF Len(strName) < MAX_NAME_LEN THEN strName ELSE SubSeq(strName, 1, MAX_NAME_LEN)

\* A buffer filled to its end has no terminator, and reading it as a string
\* runs past the array: what the read finds there before a '\0' is not defined.
Overrun == {<<>>, <<99>>}

\* What may lie past the ends of the name buffers of buf, slot by slot; only
\* the slots filled to the end are read that far.
Beyond(buf) ==
  {b \in [DOMAIN buf -> Overrun] :
     \A s \in DOMAIN buf : Len(buf[s].name) < MAX_NAME_LEN => b[s] = <<>>}

\* The string found at a name buffer, beyond being what lies past its end.
StringAt(name, beyond) == IF Len(name) < MAX_NAME_LEN THEN name ELSE name \o beyond

(***************************************************************************)
(* Zero-initialised static storage.                                        *)
(***************************************************************************)
ZeroSuite ==
  [pName |-> FALSE, name |-> <<>>, fActive |-> FALSE, pTest |-> NULL,
   pInitializeFunc |-> FALSE, pCleanupFunc |-> FALSE,
   pSetUpFunc |-> FALSE, pTearDownFunc |-> FALSE,
   uiNumberOfTests |-> 0, pNext |-> NULL, pPrev |-> NULL,
   uiNumberOfTestsFailed |-> 0, uiNumberOfTestsSuccess |-> 0]

ZeroTest ==
  [pName |-> FALSE, name |-> <<>>, fActive |-> FALSE, pTestFunc |-> FALSE,
   pJumpBuf |-> FALSE, pNext |-> NULL, pPrev |-> NULL]

ZeroFailure ==
  [type |-> "none", uiLineNumber |-> 0, pSuite |-> NULL, pTest |-> NULL,
   pNext |-> NULL, pPrev |-> NULL]

ZeroRegistry == [uiNumberOfSuites |-> 0, uiNumberOfTests |-> 0, pSuite |-> NULL]

ZeroSummary ==
  [nSuitesRun |-> 0, nSuitesFailed |-> 0, nSuitesInactive |-> 0,
   nTestsRun |-> 0, nTestsFailed |-> 0, nTestsInactive |-> 0,
   nAsserts |-> 0, nAssertsFailed |-> 0, nFailureRecords |-> 0]

NoHandlers ==
  [SuiteStart |-> FALSE, TestStart |-> FALSE, TestComplete |-> FALSE,
   SuiteComplete |-> FALSE, AllTestsComplete |-> FALSE,
   SuiteInitFailure |-> FALSE, SuiteCleanupFailure |-> FALSE]

(***************************************************************************)
(* Linked lists: the slots reached from a head by following pNext.         *)
(***************************************************************************)
RECURSIVE ListFrom(_, _)
ListFrom(buf, head) ==
  IF head = NULL THEN <<>> ELSE <<head>> \o ListFrom(buf, buf[head].pNext)

Range(s) == {s[i] : i \in 1..Len(s)}

RECURSIVE Last(_, _)
Last(buf, p) == IF buf[p].pNext = NULL THEN p ELSE Last(buf, buf[p].pNext)

RegistrySuites == ListFrom(suites_buf, registry.pSuite)
SuiteTests(s) == ListFrom(tests_buf, suites_buf[s].pTest)

(***************************************************************************)
(* Who has control.  User code runs at top level (pc = "idle") and inside  *)
(* the callbacks the engine invokes during a run.                          *)
(***************************************************************************)
UserPCs ==
  {"u_suite_start", "u_init", "u_init_failure", "u_test_start", "u_setup",
   "u_test", "u_teardown", "u_test_complete", "u_cleanup", "u_cleanup_failure",
   "u_suite_complete", "u_all_complete"}

UserCtx == pc = "idle" \/ pc \in UserPCs

NullStr == <<-1>>

Returned(op, ret, err) == [op |-> op, ret |-> ret, err |-> err]

\* A failed assert(): the process ends, nothing else changes.
Abort(op) ==
  /\ pc' = "aborted"
  /\ call' = Returned(op, NULL, "assert")
  /\ UNCHANGED <<dbVars, runVars, cfgVars, f_error_number, fr, order, hist>>

(***************************************************************************)
(* TestRun.c: the run summary and the failure records.                     *)
(***************************************************************************)
getNewFailureRecordPtr(info) ==
  IF info.currFailureIndex >= MAX_NUM_OF_TESTS
  THEN NULL
  ELSE info.currFailureIndex + 1

Failures ==
  [buf |-> failure_records_buf, info |-> test_run_storage_info,
   list |-> f_failure_list, last |-> f_last_failure, summary |-> f_run_summary]

SetFailures(F) ==
  /\ failure_records_buf' = F.buf
  /\ test_run_storage_info' = F.info
  /\ f_failure_list' = F.list
  /\ f_last_failure' = F.last
  /\ f_run_summary' = F.summary

\* A variant of clear_previous_results that leaves the failure list in place.
clear_previous_results_keeps_list(F) == [F EXCEPT !.summary = ZeroSummary, !.last = NULL]

\* A variant of clear_previous_results that hands the record slots back.
clear_previous_results_returns_slots(F) ==
  [F EXCEPT !.summary = ZeroSummary, !.list = NULL, !.last = NULL,
            !.info.currFailureIndex = 0]

\* cleanup_failure_list frees nothing: the records stay in their slots.
clear_previous_results(F) ==
  [F EXCEPT !.summary = ZeroSummary, !.list = NULL, !.last = NULL]

(***************************************************************************)
(* TestDB.c: private functions.                                            *)
(***************************************************************************)
cleanup_test(test) == [test EXCEPT !.pName = FALSE]

cleanup_suite(suite) ==
  [suite EXCEPT !.pName = FALSE, !.pTest = NULL, !.uiNumberOfTests = 0]

\* cleanup_test_registry: the buffers and the registry after it has run on reg.
cleanup_test_registry(sb, tb, reg) ==
  LET ss == Range(ListFrom(sb, reg.pSuite))
      ts == UNION {Range(ListFrom(tb, sb[s].pTest)) : s \in ss}
  IN [sb |-> [s \in SuiteSlots |-> IF s \in ss THEN cleanup_suite(sb[s]) ELSE sb[s]],
      tb |-> [t \in TestSlots |-> IF t \in ts THEN cleanup_test(tb[t]) ELSE tb[t]],
      reg |-> [reg EXCEPT !.pSuite = NULL, !.uiNumberOfSuites = 0,
                          !.uiNumberOfTests = 0],
      cleaned |-> ss]

getNewSuitePtr ==
  IF test_db_storage_info.currSuiteIndex >= MAX_NUM_OF_SUITES
  THEN NULL
  ELSE test_db_storage_info.currSuiteIndex + 1

\* A variant of getNewTestPtr that hands out the last slot again when the
\* pool is used up.
getNewTestPtr_reuses_last ==
  IF test_db_storage_info.currTestIndex >= MAX_NUM_OF_TESTS
  THEN MAX_NUM_OF_TESTS
  ELSE test_db_storage_info.currTestIndex + 1

getNewTestPtr ==
  IF test_db_storage_info.currTestIndex >= MAX_NUM_OF_TESTS
  THEN NULL
  ELSE test_db_storage_info.currTestIndex + 1

create_suite(suite, strName, pInit, pClean, pSetup, pTear) ==
  [suite EXCEPT !.pName = TRUE, !.name = strncpy(strName), !.fActive = CU_TRUE,
                !.pInitializeFunc = pInit, !.pCleanupFunc = pClean,
                !.pSetUpFunc = pSetup, !.pTearDownFunc = pTear,
                !.pTest = NULL, !.pNext = NULL, !.pPrev = NULL,
                !.uiNumberOfTests = 0]

create_test(test, strName, pTestFunc) ==
  [test EXCEPT !.pName = TRUE, !.name = strncpy(strName), !.fActive = CU_TRUE,
               !.pTestFunc = pTestFunc, !.pJumpBuf = FALSE,
               !.pNext = NULL, !.pPrev = NULL]

\* A variant of insert_suite that links the new suite in front of the list.
insert_suite_at_head(sb, reg, pSuite) ==
  IF reg.pSuite = NULL
  THEN [sb |-> [sb EXCEPT ![pSuite].pNext = NULL, ![pSuite].pPrev = NULL],
        reg |-> [reg EXCEPT !.uiNumberOfSuites = @ + 1, !.pSuite = pSuite]]
  ELSE [sb |-> [sb EXCEPT ![pSuite].pNext = reg.pSuite, ![pSuite].pPrev = NULL,
                          ![reg.pSuite].pPrev = pSuite],
        reg |-> [reg EXCEPT !.uiNumberOfSuites = @ + 1, !.pSuite = pSuite]]

\* insert_suite: sb already holds the created suite in slot pSuite.
insert_suite(sb, reg, pSuite) ==
  IF reg.pSuite = NULL
  THEN [sb |-> [sb EXCEPT ![pSuite].pNext = NULL, ![pSuite].pPrev = NULL],
        reg |-> [reg EXCEPT !.uiNumberOfSuites = @ + 1, !.pSuite = pSuite]]
  ELSE LET pCurSuite == Last(sb, reg.pSuite)
       IN [sb |-> [sb EXCEPT ![pSuite].pNext = NULL, ![pSuite].pPrev = pCurSuite,
                             ![pCurSuite].pNext = pSuite],
           reg |-> [reg EXCEPT !.uiNumberOfSuites = @ + 1]]

\* A variant of insert_test that links the new test in front of the list.
insert_test_at_head(sb, tb, pSuite, pTest) ==
  IF sb[pSuite].pTest = NULL
  THEN [sb |-> [sb EXCEPT ![pSuite].uiNumberOfTests = @ + 1, ![pSuite].pTest = pTest],
        tb |-> [tb EXCEPT ![pTest].pPrev = NULL]]
  ELSE LET pCurTest == sb[pSuite].pTest
       IN [sb |-> [sb EXCEPT ![pSuite].uiNumberOfTests = @ + 1, ![pSuite].pTest = pTest],
           tb |-> [tb EXCEPT ![pCurTest].pPrev = pTest, ![pTest].pNext = pCurTest]]

\* insert_test: tb already holds the created test in slot pTest.
insert_test(sb, tb, pSuite, pTest) ==
  IF sb[pSuite].pTest = NULL
  THEN [sb |-> [sb EXCEPT ![pSuite].uiNumberOfTests = @ + 1, ![pSuite].pTest = pTest],
        tb |-> [tb EXCEPT ![pTest].pPrev = NULL]]
  ELSE LET pCurTest == Last(tb, sb[pSuite].pTest)
       IN [sb |-> [sb EXCEPT ![pSuite].uiNumberOfTests = @ + 1],
           tb |-> [tb EXCEPT ![pCurTest].pNext = pTest, ![pTest].pPrev = pCurTest]]

\* In the lookups, beyond[slot] is what lies past the end of the slot's name buffer.
suite_exists(reg, szSuiteName, beyond) ==
  \E s \in Range(ListFrom(suites_buf, reg.pSuite)) :
    /\ suites_buf[s].pName
    /\ CU_compare_strings(szSuiteName, StringAt(suites_buf[s].name, beyond[s])) = 0

test_exists(pSuite, szTestName, beyond) ==
  \E t \in Range(SuiteTests(pSuite)) :
    /\ tests_buf[t].pName
    /\ CU_compare_strings(szTestName, StringAt(tests_buf[t].name, beyond[t])) = 0

\* The first test of pSuite, in list order, whose name compares equal; NULL if none.
CU_get_test_by_name(szTestName, pSuite, beyond) ==
  LET l == SuiteTests(pSuite)
      hits == {i \in 1..Len(l) :
                 /\ tests_buf[l[i]].pName
                 /\ CU_compare_strings(StringAt(tests_buf[l[i]].name, beyond[l[i]]),
                                       szTestName) = 0}
  IN IF hits = {} THEN NULL
     ELSE l[CHOOSE i \in hits : \A j \in hits : i <= j]

(***************************************************************************)
(* TestDB.c: public interface, called by user code.                        *)
(***************************************************************************)
\* A variant of cleanup_registry that leaves the stored results in place.
cleanup_registry_keeps_results ==
  LET c == cleanup_test_registry(suites_buf, tests_buf, registry)
  IN /\ IF f_pTestRegistry # NULL
        THEN /\ suites_buf' = c.sb
             /\ tests_buf' = c.tb
             /\ registry' = c.reg
             /\ order' = [order EXCEPT
                            !.suites = <<>>,
                            !.tests = [s \in SuiteSlots |->
                                         IF s \in c.cleaned THEN <<>> ELSE order.tests[s]]]
        ELSE UNCHANGED <<suites_buf, tests_buf, registry, order>>
     /\ f_pTestRegistry' = NULL
     /\ UNCHANGED failVars

\* The body of CU_cleanup_registry after its assertion.
cleanup_registry ==
  LET c == cleanup_test_registry(suites_buf, tests_buf, registry)
  IN /\ IF f_pTestRegistry # NULL
        THEN /\ suites_buf' = c.sb
             /\ tests_buf' = c.tb
             /\ registry' = c.reg
             /\ order' = [order EXCEPT
                            !.suites = <<>>,
                            !.tests = [s \in SuiteSlots |->
                                         IF s \in c.cleaned THEN <<>> ELSE order.tests[s]]]
        ELSE UNCHANGED <<suites_buf, tests_buf, registry, order>>
     /\ f_pTestRegistry' = NULL
     /\ SetFailures(clear_previous_results(Failures))

\* A variant of CU_cleanup_registry that gives the slots back to the pools.
CU_cleanup_registry_reclaims ==
  /\ UserCtx
  /\ IF f_bTestIsRunning
     THEN Abort("CU_cleanup_registry")
     ELSE /\ cleanup_registry
          /\ f_error_number' = "CUE_SUCCESS"
          /\ call' = Returned("CU_cleanup_registry", NULL, "CUE_SUCCESS")
          /\ test_db_storage_info' = [currSuiteIndex |-> 0, currTestIndex |-> 0]
          /\ UNCHANGED <<curVars, cfgVars, frameVars>>

CU_cleanup_registry ==
  /\ UserCtx
  /\ IF f_bTestIsRunning
     THEN Abort("CU_cleanup_registry")
     ELSE /\ cleanup_registry
          /\ f_error_number' = "CUE_SUCCESS"
          /\ call' = Returned("CU_cleanup_registry", NULL, "CUE_SUCCESS")
          /\ UNCHANGED <<test_db_storage_info, curVars, cfgVars, frameVars>>

CU_initialize_registry ==
  /\ UserCtx
  /\ IF f_bTestIsRunning
     THEN Abort("CU_initialize_registry")
     ELSE LET c == cleanup_test_registry(suites_buf, tests_buf, registry)
          IN /\ IF f_pTestRegistry # NULL
                THEN /\ suites_buf' = c.sb
                     /\ tests_buf' = c.tb
                     /\ order' = [order EXCEPT
                                    !.suites = <<>>,
                                    !.tests = [s \in SuiteSlots |->
                                       IF s \in c.cleaned THEN <<>> ELSE order.tests[s]]]
                     /\ SetFailures(clear_previous_results(Failures))
                ELSE /\ order' = [order EXCEPT !.suites = <<>>]
                     /\ UNCHANGED <<suites_buf, tests_buf, failVars>>
             /\ registry' = ZeroRegistry
             /\ f_pTestRegistry' = 1
             /\ f_error_number' = "CUE_SUCCESS"
             /\ call' = Returned("CU_initialize_registry", "CUE_SUCCESS", "CUE_SUCCESS")
             /\ UNCHANGED <<test_db_storage_info, curVars, cfgVars, frameVars>>

\* A variant of CU_set_registry that returns the registry it was given.
CU_set_registry_returns_new(pRegistry) ==
  /\ UserCtx
  /\ IF f_bTestIsRunning
     THEN Abort("CU_set_registry")
     ELSE /\ f_pTestRegistry' = pRegistry
          /\ f_error_number' = "CUE_SUCCESS"
          /\ call' = Returned("CU_set_registry", pRegistry, "CUE_SUCCESS")
          /\ UNCHANGED <<suites_buf, tests_buf, test_db_storage_info, registry,
                         runVars, cfgVars, frameVars, order>>

CU_set_registry(pRegistry) ==
  /\ UserCtx
  /\ IF f_bTestIsRunning
     THEN Abort("CU_set_registry")
     ELSE /\ f_pTestRegistry' = pRegistry
          /\ f_error_number' = "CUE_SUCCESS"
          /\ call' = Returned("CU_set_registry", f_pTestRegistry, "CUE_SUCCESS")
          /\ UNCHANGED <<suites_buf, tests_buf, test_db_storage_info, registry,
                         runVars, cfgVars, frameVars, order>>

CU_create_new_registry ==
  /\ UserCtx
  /\ registry' = ZeroRegistry
  /\ order' = [order EXCEPT !.suites = <<>>]
  /\ call' = Returned("CU_create_new_registry", 1, f_error_number)
  /\ UNCHANGED <<suites_buf, tests_buf, test_db_storage_info, f_pTestRegistry,
                 runVars, cfgVars, f_error_number, frameVars>>

\* Called on a user variable holding pRegistry; the variable is set to NULL.
CU_destroy_existing_registry(pRegistry) ==
  LET c == cleanup_test_registry(suites_buf, tests_buf, registry)
  IN /\ UserCtx
     /\ IF pRegistry # NULL
        THEN /\ suites_buf' = c.sb
             /\ tests_buf' = c.tb
             /\ registry' = c.reg
             /\ order' = [order EXCEPT
                            !.suites = <<>>,
                            !.tests = [s \in SuiteSlots |->
                                         IF s \in c.cleaned THEN <<>> ELSE order.tests[s]]]
        ELSE UNCHANGED <<suites_buf, tests_buf, registry, order>>
     /\ call' = Returned("CU_destroy_existing_registry", NULL, f_error_number)
     /\ UNCHANGED <<test_db_storage_info, f_pTestRegistry, runVars, cfgVars,
                    f_error_number, frameVars>>

\* A variant of AddSuiteError that does not check what create_suite returned.
AddSuiteError_unchecked(strName, pRetValue, beyond) ==
  IF f_pTestRegistry = NULL THEN "CUE_NOREGISTRY"
  ELSE IF strName = NullStr THEN "CUE_NO_SUITENAME"
  ELSE IF suite_exists(registry, strName, beyond) THEN "CUE_DUP_SUITE"
  ELSE "CUE_SUCCESS"

\* The error CU_add_suite_with_setup_and_teardown sets, pRetValue being what
\* create_suite returned (NULL when it was not called).
AddSuiteError(strName, pRetValue, beyond) ==
  IF f_pTestRegistry = NULL THEN "CUE_NOREGISTRY"
  ELSE IF strName = NullStr THEN "CUE_NO_SUITENAME"
  ELSE IF pRetValue = NULL THEN "CUE_NOMEMORY"
  ELSE IF suite_exists(registry, strName, beyond) THEN "CUE_DUP_SUITE"
  ELSE "CUE_SUCCESS"

CU_add_suite_with_setup_and_teardown(strName, pInit, pClean, pSetup, pTear) ==
  /\ UserCtx
  /\ IF f_bTestIsRunning
     THEN Abort("CU_add_suite")
     ELSE \E beyond \in Beyond(suites_buf) :
          LET pRetValue ==
                IF f_pTestRegistry = NULL \/ strName = NullStr THEN NULL
                ELSE getNewSuitePtr
              error == AddSuiteError(strName, pRetValue, beyond)
          IN /\ IF pRetValue # NULL
                THEN LET created == [suites_buf EXCEPT ![pRetValue] =
                                       create_suite(@, strName, pInit, pClean, pSetup, pTear)]
                         ins == insert_suite(created, registry, pRetValue)
                     IN /\ suites_buf' = ins.sb
                        /\ registry' = ins.reg
                        /\ test_db_storage_info' =
                             [test_db_storage_info EXCEPT !.currSuiteIndex = @ + 1]
                        /\ order' = [order EXCEPT !.suites = Append(@, pRetValue),
                                                  !.sname[pRetValue] = strName]
                ELSE UNCHANGED <<suites_buf, registry, test_db_storage_info, order>>
             /\ f_error_number' = error
             /\ call' = Returned("CU_add_suite", pRetValue, error)
             /\ UNCHANGED <<tests_buf, f_pTestRegistry, runVars, cfgVars, frameVars>>

\* A variant of AddTestError that looks at the name before the suite.
AddTestError_name_first(pSuite, strName, pTestFunc, pRetValue, beyond) ==
  IF f_pTestRegistry = NULL THEN "CUE_NOREGISTRY"
  ELSE IF strName = NullStr THEN "CUE_NO_TESTNAME"
  ELSE IF pSuite = NULL THEN "CUE_NOSUITE"
  ELSE IF ~pTestFunc THEN "CUE_NOTEST"
  ELSE IF pRetValue = NULL THEN "CUE_NOMEMORY"
  ELSE IF test_exists(pSuite, strName, beyond) THEN "CUE_DUP_TEST"
  ELSE "CUE_SUCCESS"

\* The error CU_add_test sets, pRetValue being what create_test returned.
AddTestError(pSuite, strName, pTestFunc, pRetValue, beyond) ==
  IF f_pTestRegistry = NULL THEN "CUE_NOREGISTRY"
  ELSE IF pSuite = NULL THEN "CUE_NOSUITE"
  ELSE IF strName = NullStr THEN "CUE_NO_TESTNAME"
  ELSE IF ~pTestFunc THEN "CUE_NOTEST"
  ELSE IF pRetValue = NULL THEN "CUE_NOMEMORY"
  ELSE IF test_exists(pSuite, strName, beyond) THEN "CUE_DUP_TEST"
  ELSE "CUE_SUCCESS"

CU_add_test(pSuite, strName, pTestFunc) ==
  /\ UserCtx
  /\ IF f_bTestIsRunning
     THEN Abort("CU_add_test")
     ELSE \E beyond \in Beyond(tests_buf) :
          LET bad == f_pTestRegistry = NULL \/ pSuite = NULL \/ strName = NullStr
                     \/ ~pTestFunc
              pRetValue == IF bad THEN NULL ELSE getNewTestPtr
              error == AddTestError(pSuite, strName, pTestFunc, pRetValue, beyond)
          IN /\ IF pRetValue # NULL
                THEN LET created == [tests_buf EXCEPT ![pRetValue] =
                                       create_test(@, strName, pTestFunc)]
                         ins == insert_test(suites_buf, created, pSuite, pRetValue)
                     IN /\ suites_buf' = ins.sb
                        /\ tests_buf' = ins.tb
                        /\ registry' = [registry EXCEPT !.uiNumberOfTests = @ + 1]
                        /\ test_db_storage_info' =
                             [test_db_storage_info EXCEPT !.currTestIndex = @ + 1]
                        /\ order' = [order EXCEPT !.tests[pSuite] = Append(@, pRetValue),
                                                  !.tname[pRetValue] = strName]
                ELSE UNCHANGED <<suites_buf, tests_buf, registry, test_db_storage_info,
                                 order>>
             /\ f_error_number' = error
             /\ call' = Returned("CU_add_test", pRetValue, error)
             /\ UNCHANGED <<f_pTestRegistry, runVars, cfgVars, frameVars>>

(***************************************************************************)
(* User code writing the public fActive field of a suite or test it holds. *)
(***************************************************************************)
SetSuiteActive(pSuite, fActive) ==
  /\ pc = "idle"
  /\ suites_buf[pSuite].fActive # fActive
  /\ suites_buf' = [suites_buf EXCEPT ![pSuite].fActive = fActive]
  /\ UNCHANGED <<tests_buf, test_db_storage_info, registry, f_pTestRegistry, runVars,
                 cfgVars, f_error_number, frameVars, call, order>>

SetTestActive(pTest, fActive) ==
  /\ pc = "idle"
  /\ tests_buf[pTest].fActive # fActive
  /\ tests_buf' = [tests_buf EXCEPT ![pTest].fActive = fActive]
  /\ UNCHANGED <<suites_buf, test_db_storage_info, registry, f_pTestRegistry, runVars,
                 cfgVars, f_error_number, frameVars, call, order>>

(***************************************************************************)
(* TestRun.c: the stack frame of the run functions, and the record of what *)
(* the current run has executed.                                           *)
(***************************************************************************)
ZeroFrame ==
  [entry |-> "none", pSuite |-> NULL, pTest |-> NULL, result |-> "CUE_SUCCESS",
   ss_pTest |-> NULL, ss_nStartFailures |-> 0, ss_pLastFailure |-> NULL,
   ss_result |-> "CUE_SUCCESS",
   st_pTest |-> NULL, st_nStartFailures |-> 0, st_pLastFailure |-> NULL,
   st_result |-> "CUE_SUCCESS", outer |-> <<>>]

\* The frames of the run entry points on the C stack, innermost first: a
\* callback that calls an entry point suspends the frame that invoked it.
Frames == <<[pc |-> pc, fr |-> [fr EXCEPT !.outer = <<>>]]>> \o fr.outer
PushFrame == IF pc = "idle" THEN <<>> ELSE Frames
Resume(frames) == [Head(frames).fr EXCEPT !.outer = Tail(frames)]

NoCalls == [u \in UserPCs |-> 0]

ZeroHist ==
  [suites |-> <<>>, tests |-> <<>>, asserts |-> 0, before |-> ZeroSummary,
   sn |-> NoCalls, tn |-> NoCalls, incs |-> 0, jumped |-> "no", init |-> "none",
   clean |-> "none", results |-> <<>>, tbefore |-> ZeroSummary, cleared |-> FALSE,
   runs |-> 0]

\* Control passes to label; a callback invocation is counted.
Called(h, label) ==
  IF label \in UserPCs
  THEN [h EXCEPT !.sn[label] = @ + 1, !.tn[label] = @ + 1]
  ELSE h

(***************************************************************************)
(* TestRun.c: failure records.                                             *)
(***************************************************************************)
\* A variant of add_failure that counts a record it had no slot for.
add_failure_counts_dropped(F, type, uiLineNumber, pSuite, pTest) ==
  LET pFailureNew == getNewFailureRecordPtr(F.info)
      pTemp == IF F.list # NULL THEN Last(F.buf, F.list) ELSE NULL
      new == [type |-> type, uiLineNumber |-> uiLineNumber, pTest |-> pTest,
              pSuite |-> pSuite, pNext |-> NULL, pPrev |-> pTemp]
  IN IF pFailureNew = NULL
     THEN [F EXCEPT !.summary.nFailureRecords = @ + 1]
     ELSE [buf |-> IF pTemp # NULL
                   THEN [F.buf EXCEPT ![pFailureNew] = new, ![pTemp].pNext = pFailureNew]
                   ELSE [F.buf EXCEPT ![pFailureNew] = new],
           info |-> [F.info EXCEPT !.currFailureIndex = @ + 1],
           list |-> IF pTemp # NULL THEN F.list ELSE pFailureNew,
           last |-> pFailureNew,
           summary |-> [F.summary EXCEPT !.nFailureRecords = @ + 1]]

\* A variant of add_failure that links the record but does not count it.
add_failure_uncounted(F, type, uiLineNumber, pSuite, pTest) ==
  LET pFailureNew == getNewFailureRecordPtr(F.info)
      pTemp == IF F.list # NULL THEN Last(F.buf, F.list) ELSE NULL
      new == [type |-> type, uiLineNumber |-> uiLineNumber, pTest |-> pTest,
              pSuite |-> pSuite, pNext |-> NULL, pPrev |-> pTemp]
  IN IF pFailureNew = NULL
     THEN F
     ELSE [buf |-> IF pTemp # NULL
                   THEN [F.buf EXCEPT ![pFailureNew] = new, ![pTemp].pNext = pFailureNew]
                   ELSE [F.buf EXCEPT ![pFailureNew] = new],
           info |-> [F.info EXCEPT !.currFailureIndex = @ + 1],
           list |-> IF pTemp # NULL THEN F.list ELSE pFailureNew,
           last |-> pFailureNew,
           summary |-> F.summary]

add_failure(F, type, uiLineNumber, pSuite, pTest) ==
  LET pFailureNew == getNewFailureRecordPtr(F.info)
      pTemp == IF F.list # NULL THEN Last(F.buf, F.list) ELSE NULL
      new == [type |-> type, uiLineNumber |-> uiLineNumber, pTest |-> pTest,
              pSuite |-> pSuite, pNext |-> NULL, pPrev |-> pTemp]
  IN IF pFailureNew = NULL
     THEN F
     ELSE [buf |-> IF pTemp # NULL
                   THEN [F.buf EXCEPT ![pFailureNew] = new, ![pTemp].pNext = pFailureNew]
                   ELSE [F.buf EXCEPT ![pFailureNew] = new],
           info |-> [F.info EXCEPT !.currFailureIndex = @ + 1],
           list |-> IF pTemp # NULL THEN F.list ELSE pFailureNew,
           last |-> pFailureNew,
           summary |-> [F.summary EXCEPT !.nFailureRecords = @ + 1]]

Bump(F, counter) == [F EXCEPT !.summary[counter] = @ + 1]

FailureList == ListFrom(failure_records_buf, f_failure_list)

(***************************************************************************)
(* TestRun.c: CU_assertImplementation, called by user code in a callback.  *)
(* A fatal failure with the test's jump buffer set is a longjmp to the     *)
(* setjmp of run_single_test, which then returns 1.                        *)
(***************************************************************************)
\* A variant of AfterSetjmp that resumes past the teardown call.
AfterSetjmp_past_teardown == "st_count"

\* Where control resumes when setjmp returns nonzero: after the if statement
\* that calls the test function.
AfterSetjmp == "st_teardown"

\* The frames from the one whose jump buffer the current test holds: the
\* innermost frame that has called setjmp for it and not yet cleared it.
JumpFrames ==
  LET HasJumpBuf(frame) ==
        /\ frame.fr.st_pTest = f_pCurTest
        /\ frame.pc \in {"u_test", "u_teardown", "u_test_complete"}
      i == CHOOSE i \in 1..Len(Frames) :
             /\ HasJumpBuf(Frames[i])
             /\ \A j \in 1..(i - 1) : ~HasJumpBuf(Frames[j])
  IN SubSeq(Frames, i, Len(Frames))

\* A variant of CU_assertImplementation that counts a failing assertion in
\* nAssertsFailed only.
CU_assertImplementation_uncounted(bValue, uiLine, bFatal) ==
  /\ pc \in UserPCs
  /\ IF f_pCurSuite = NULL \/ f_pCurTest = NULL
     THEN Abort("CU_assertImplementation")
     ELSE LET counted == Bump(Failures, "nAsserts")
              failed == add_failure(Bump(Failures, "nAssertsFailed"), "CUF_AssertFailed",
                                    uiLine, f_pCurSuite, f_pCurTest)
              jump == ~bValue /\ bFatal /\ tests_buf[f_pCurTest].pJumpBuf
          IN /\ SetFailures(IF bValue THEN counted ELSE failed)
             /\ pc' = IF jump THEN AfterSetjmp ELSE pc
             /\ fr' = IF jump THEN Resume(JumpFrames) ELSE fr
             /\ hist' = [hist EXCEPT !.asserts = @ + 1,
                                     !.jumped = IF jump THEN pc ELSE @]
             /\ call' = Returned("CU_assertImplementation", bValue,
                                 IF jump THEN "longjmp" ELSE "return")
             /\ UNCHANGED <<dbVars, f_bTestIsRunning, f_pCurSuite, f_pCurTest, cfgVars,
                            f_error_number, order>>

CU_assertImplementation(bValue, uiLine, bFatal) ==
  /\ pc \in UserPCs
  /\ IF f_pCurSuite = NULL \/ f_pCurTest = NULL
     THEN Abort("CU_assertImplementation")
     ELSE LET counted == Bump(Failures, "nAsserts")
              failed == add_failure(Bump(counted, "nAssertsFailed"), "CUF_AssertFailed",
                                    uiLine, f_pCurSuite, f_pCurTest)
              jump == ~bValue /\ bFatal /\ tests_buf[f_pCurTest].pJumpBuf
          IN /\ SetFailures(IF bValue THEN counted ELSE failed)
             /\ pc' = IF jump THEN AfterSetjmp ELSE pc
             /\ fr' = IF jump THEN Resume(JumpFrames) ELSE fr
             /\ hist' = [hist EXCEPT !.asserts = @ + 1,
                                     !.jumped = IF jump THEN pc ELSE @]
             /\ call' = Returned("CU_assertImplementation", bValue,
                                 IF jump THEN "longjmp" ELSE "return")
             /\ UNCHANGED <<dbVars, f_bTestIsRunning, f_pCurSuite, f_pCurTest, cfgVars,
                            f_error_number, order>>

\* f_run_summary.nAsserts - f_run_summary.nAssertsFailed in unsigned int.  A
\* negative d stands for the wrapped value UINT_MAX + 1 + d, which is beyond
\* the integers of the model checker.
CU_get_number_of_successes == f_run_summary.nAsserts - f_run_summary.nAssertsFailed

(***************************************************************************)
(* TestRun.c: settings.                                                    *)
(***************************************************************************)
\* The seven CU_set_..._handler functions; kind names the slot.
CU_set_handler(kind, pHandler) ==
  /\ pc = "idle"
  /\ handlers[kind] # pHandler
  /\ handlers' = [handlers EXCEPT ![kind] = pHandler]
  /\ UNCHANGED <<dbVars, runVars, f_failure_on_inactive, f_error_action,
                 f_error_number, frameVars, call, order>>

CU_set_fail_on_inactive(new_inactive) ==
  /\ pc = "idle"
  /\ f_failure_on_inactive # new_inactive
  /\ f_failure_on_inactive' = new_inactive
  /\ UNCHANGED <<dbVars, runVars, handlers, f_error_action, f_error_number,
                 frameVars, call, order>>

CU_set_error_action(action) ==
  /\ pc = "idle"
  /\ f_error_action # action
  /\ f_error_action' = action
  /\ UNCHANGED <<dbVars, runVars, handlers, f_failure_on_inactive, f_error_number,
                 frameVars, call, order>>

CU_clear_previous_results ==
  /\ pc = "idle"
  /\ SetFailures(clear_previous_results(Failures))
  /\ call' = Returned("CU_clear_previous_results", NULL, f_error_number)
  /\ UNCHANGED <<dbVars, curVars, cfgVars, f_error_number, frameVars, order>>

(***************************************************************************)
(* TestRun.c: the run entry points, called by user code at top level.      *)
(***************************************************************************)
HadResults == f_run_summary # ZeroSummary \/ f_failure_list # NULL

FreshHist == [ZeroHist EXCEPT !.cleared = HadResults, !.runs = hist.runs + 1]

\* What is kept of the record of a run once the entry point has returned.
ClosedHist == [ZeroHist EXCEPT !.cleared = hist.cleared, !.runs = hist.runs]

\* An entry point that returns at once: CU_set_error(result); return result.
ReturnAtOnce(op, result) ==
  /\ f_error_number' = result
  /\ call' = Returned(op, result, result)
  /\ pc' = pc
  /\ fr' = fr
  /\ hist' = FreshHist
  /\ UNCHANGED curVars

\* An entry point that starts the run: the flag is set, control goes to label.
StartRun(op, pSuite, pTest, label) ==
  /\ f_bTestIsRunning' = CU_TRUE
  /\ fr' = [ZeroFrame EXCEPT !.entry = op, !.pSuite = pSuite, !.pTest = pTest,
                             !.outer = PushFrame]
  /\ call' = Returned(op, NULL, "running")
  /\ pc' = label
  /\ UNCHANGED f_error_number

CU_run_all_tests ==
  /\ UserCtx
  /\ SetFailures(clear_previous_results(Failures))
  /\ IF f_pTestRegistry = NULL
     THEN ReturnAtOnce("CU_run_all_tests", "CUE_NOREGISTRY")
     ELSE /\ StartRun("CU_run_all_tests", registry.pSuite, NULL, "ra_loop")
          /\ hist' = FreshHist
          /\ UNCHANGED <<f_pCurSuite, f_pCurTest>>
  /\ UNCHANGED <<dbVars, cfgVars, order>>

CU_run_suite(pSuite) ==
  /\ UserCtx
  /\ SetFailures(clear_previous_results(Failures))
  /\ IF pSuite = NULL
     THEN ReturnAtOnce("CU_run_suite", "CUE_NOSUITE")
     ELSE /\ StartRun("CU_run_suite", pSuite, NULL, "ss_enter")
          /\ hist' = FreshHist
          /\ UNCHANGED <<f_pCurSuite, f_pCurTest>>
  /\ UNCHANGED <<dbVars, cfgVars, order>>

CU_run_test(pSuite, pTest) ==
  \E beyond \in Beyond(tests_buf) :
  LET cleared == clear_previous_results(Failures)
      inactive == Bump(cleared, "nSuitesInactive")
  IN /\ UserCtx
     /\ IF pSuite = NULL
        THEN /\ SetFailures(cleared)
             /\ ReturnAtOnce("CU_run_test", "CUE_NOSUITE")
             /\ UNCHANGED suites_buf
        ELSE IF pTest = NULL
        THEN /\ SetFailures(cleared)
             /\ ReturnAtOnce("CU_run_test", "CUE_NOTEST")
             /\ UNCHANGED suites_buf
        ELSE IF suites_buf[pSuite].fActive = CU_FALSE
        THEN /\ SetFailures(IF f_failure_on_inactive # CU_FALSE
                            THEN add_failure(inactive, "CUF_SuiteInactive", 0, pSuite, NULL)
                            ELSE inactive)
             /\ ReturnAtOnce("CU_run_test", "CUE_SUITE_INACTIVE")
             /\ UNCHANGED suites_buf
        ELSE IF ~tests_buf[pTest].pName
                \/ CU_get_test_by_name(StringAt(tests_buf[pTest].name, beyond[pTest]),
                                       pSuite, beyond) = NULL
        THEN /\ SetFailures(cleared)
             /\ ReturnAtOnce("CU_run_test", "CUE_TEST_NOT_IN_SUITE")
             /\ UNCHANGED suites_buf
        ELSE /\ SetFailures(cleared)
             /\ StartRun("CU_run_test", pSuite, pTest,
                         IF handlers.SuiteStart THEN "u_suite_start" ELSE "rt_init")
             /\ f_pCurTest' = NULL
             /\ f_pCurSuite' = pSuite
             /\ suites_buf' = [suites_buf EXCEPT ![pSuite].uiNumberOfTestsFailed = 0,
                                                 ![pSuite].uiNumberOfTestsSuccess = 0]
             /\ hist' = Called([FreshHist EXCEPT !.suites = <<pSuite>>],
                               IF handlers.SuiteStart THEN "u_suite_start" ELSE "rt_init")
     /\ UNCHANGED <<tests_buf, test_db_storage_info, registry, f_pTestRegistry,
                    cfgVars, order>>

(***************************************************************************)
(* The end of the three entry points: the flag is cleared, the             *)
(* all-complete handler runs, the error is set and the call returns.       *)
(***************************************************************************)
run_end ==
  /\ pc = "run_end"
  /\ f_bTestIsRunning' = CU_FALSE
  /\ pc' = IF handlers.AllTestsComplete THEN "u_all_complete" ELSE "run_ret"
  /\ hist' = Called(hist, pc')
  /\ UNCHANGED <<dbVars, f_pCurSuite, f_pCurTest, failVars, cfgVars, f_error_number,
                 fr, call, order>>

run_ret ==
  /\ pc = "run_ret"
  /\ f_pCurSuite' = IF fr.entry = "CU_run_test" THEN NULL ELSE f_pCurSuite
  /\ f_error_number' = fr.result
  /\ call' = Returned(fr.entry, fr.result, fr.result)
  /\ pc' = IF fr.outer = <<>> THEN "idle" ELSE Head(fr.outer).pc
  /\ fr' = IF fr.outer = <<>> THEN ZeroFrame ELSE Resume(fr.outer)
  /\ hist' = ClosedHist
  /\ UNCHANGED <<dbVars, f_bTestIsRunning, f_pCurTest, failVars, cfgVars, order>>

\* A callback that returns nothing the engine reads: control goes on to next.
ReturnTo(from, next) ==
  /\ pc = from
  /\ pc' = next
  /\ UNCHANGED <<dbVars, runVars, cfgVars, f_error_number, fr, call, order, hist>>

FirstError(result, result2) == IF result = "CUE_SUCCESS" THEN result2 ELSE result

KeepGoing(result) == result = "CUE_SUCCESS" \/ f_error_action = "CUEA_IGNORE"

\* The failure record a completion handler is given: the first one added
\* since pLastFailure was taken, or NULL when the count did not grow.
NewFailures(nStartFailures, pLastFailure) ==
  IF f_run_summary.nFailureRecords > nStartFailures
  THEN IF pLastFailure # NULL
       THEN failure_records_buf[pLastFailure].pNext
       ELSE f_failure_list
  ELSE NULL

(***************************************************************************)
(* CU_run_all_tests: the loop over the registry's suites.                  *)
(***************************************************************************)
\* A variant of ra_loop that stops at the first error whatever the action.
ra_loop_stops_on_error ==
  /\ pc = "ra_loop"
  /\ pc' = IF fr.pSuite # NULL /\ fr.result = "CUE_SUCCESS" THEN "ss_enter" ELSE "run_end"
  /\ UNCHANGED <<dbVars, runVars, cfgVars, f_error_number, fr, call, order, hist>>

ra_loop ==
  /\ pc = "ra_loop"
  /\ pc' = IF fr.pSuite # NULL /\ KeepGoing(fr.result) THEN "ss_enter" ELSE "run_end"
  /\ UNCHANGED <<dbVars, runVars, cfgVars, f_error_number, fr, call, order, hist>>

(***************************************************************************)
(* run_single_suite(fr.pSuite).                                            *)
(***************************************************************************)
ss_enter ==
  /\ pc = "ss_enter"
  /\ fr' = [fr EXCEPT !.ss_pLastFailure = f_last_failure,
                      !.ss_nStartFailures = f_run_summary.nFailureRecords,
                      !.ss_result = "CUE_SUCCESS", !.ss_pTest = NULL]
  /\ f_pCurTest' = NULL
  /\ f_pCurSuite' = fr.pSuite
  /\ pc' = IF handlers.SuiteStart THEN "u_suite_start" ELSE "ss_active"
  /\ hist' = Called([hist EXCEPT !.suites = Append(@, fr.pSuite),
                                 !.before = f_run_summary, !.sn = NoCalls,
                                 !.tn = NoCalls, !.incs = 0, !.jumped = "no",
                                 !.init = "none", !.clean = "none"], pc')
  /\ UNCHANGED <<dbVars, f_bTestIsRunning, failVars, cfgVars, f_error_number, call,
                 order>>

suite_start_return ==
  ReturnTo("u_suite_start", IF fr.entry = "CU_run_test" THEN "rt_init" ELSE "ss_active")

\* A variant of ss_active that records an inactive suite and then runs it.
ss_active_runs_inactive ==
  /\ pc = "ss_active"
  /\ pc' = IF suites_buf[fr.pSuite].pInitializeFunc THEN "u_init" ELSE "ss_tests"
  /\ hist' = Called(hist, pc')
  /\ IF suites_buf[fr.pSuite].fActive # CU_FALSE
     THEN UNCHANGED <<failVars, fr>>
     ELSE /\ SetFailures(IF f_failure_on_inactive # CU_FALSE
                         THEN add_failure(Bump(Failures, "nSuitesInactive"),
                                          "CUF_SuiteInactive", 0, fr.pSuite, NULL)
                         ELSE Bump(Failures, "nSuitesInactive"))
          /\ fr' = [fr EXCEPT !.ss_result = IF f_failure_on_inactive # CU_FALSE
                                            THEN "CUE_SUITE_INACTIVE" ELSE @]
  /\ UNCHANGED <<dbVars, curVars, cfgVars, f_error_number, call, order>>

ss_active ==
  /\ pc = "ss_active"
  /\ IF suites_buf[fr.pSuite].fActive # CU_FALSE
     THEN /\ pc' = IF suites_buf[fr.pSuite].pInitializeFunc THEN "u_init" ELSE "ss_tests"
          /\ hist' = Called(hist, pc')
          /\ UNCHANGED <<failVars, fr>>
     ELSE /\ SetFailures(IF f_failure_on_inactive # CU_FALSE
                         THEN add_failure(Bump(Failures, "nSuitesInactive"),
                                          "CUF_SuiteInactive", 0, fr.pSuite, NULL)
                         ELSE Bump(Failures, "nSuitesInactive"))
          /\ fr' = [fr EXCEPT !.ss_result = IF f_failure_on_inactive # CU_FALSE
                                            THEN "CUE_SUITE_INACTIVE" ELSE @]
          /\ pc' = "ss_finish"
          /\ UNCHANGED hist
  /\ UNCHANGED <<dbVars, curVars, cfgVars, f_error_number, call, order>>

\* The suite initialization function returns rv.
init_return(rv) ==
  /\ pc = "u_init"
  /\ pc' = IF rv # 0
           THEN IF handlers.SuiteInitFailure THEN "u_init_failure"
                ELSE IF fr.entry = "CU_run_test" THEN "rt_init_failed"
                ELSE "ss_init_failed"
           ELSE IF fr.entry = "CU_run_test" THEN "st_enter" ELSE "ss_tests"
  /\ hist' = Called([hist EXCEPT !.init = IF rv # 0 THEN "failed" ELSE "ok"], pc')
  /\ UNCHANGED <<dbVars, runVars, cfgVars, f_error_number, fr, call, order>>

init_failure_return ==
  ReturnTo("u_init_failure",
           IF fr.entry = "CU_run_test" THEN "rt_init_failed" ELSE "ss_init_failed")

\* A variant of ss_init_failed that does not count the suite as failed.
ss_init_failed_uncounted ==
  /\ pc = "ss_init_failed"
  /\ SetFailures(add_failure(Failures, "CUF_SuiteInitFailed", 0, fr.pSuite, NULL))
  /\ fr' = [fr EXCEPT !.ss_result = "CUE_SINIT_FAILED"]
  /\ pc' = "ss_finish"
  /\ UNCHANGED <<dbVars, curVars, cfgVars, f_error_number, call, order, hist>>

ss_init_failed ==
  /\ pc = "ss_init_failed"
  /\ SetFailures(add_failure(Bump(Failures, "nSuitesFailed"), "CUF_SuiteInitFailed", 0,
                             fr.pSuite, NULL))
  /\ fr' = [fr EXCEPT !.ss_result = "CUE_SINIT_FAILED"]
  /\ pc' = "ss_finish"
  /\ UNCHANGED <<dbVars, curVars, cfgVars, f_error_number, call, order, hist>>

ss_tests ==
  /\ pc = "ss_tests"
  /\ fr' = [fr EXCEPT !.ss_pTest = suites_buf[fr.pSuite].pTest]
  /\ pc' = "ss_loop"
  /\ UNCHANGED <<dbVars, runVars, cfgVars, f_error_number, call, order, hist>>

ss_loop ==
  /\ pc = "ss_loop"
  /\ IF fr.ss_pTest # NULL /\ KeepGoing(fr.ss_result)
     THEN IF tests_buf[fr.ss_pTest].fActive # CU_FALSE
          THEN /\ fr' = [fr EXCEPT !.st_pTest = fr.ss_pTest]
               /\ pc' = "st_enter"
               /\ UNCHANGED failVars
          ELSE /\ SetFailures(IF f_failure_on_inactive # CU_FALSE
                              THEN add_failure(Bump(Failures, "nTestsInactive"),
                                     "CUF_TestInactive", 0, fr.pSuite, fr.ss_pTest)
                              ELSE Bump(Failures, "nTestsInactive"))
               /\ fr' = [fr EXCEPT !.ss_result = IF f_failure_on_inactive # CU_FALSE
                                                 THEN "CUE_TEST_INACTIVE" ELSE @]
               /\ pc' = "ss_next"
     ELSE /\ pc' = "ss_after_loop"
          /\ UNCHANGED <<failVars, fr>>
  /\ hist' = IF pc' = "ss_next"
             THEN [hist EXCEPT !.tn = NoCalls, !.incs = 0, !.jumped = "no"]
             ELSE hist
  /\ UNCHANGED <<dbVars, curVars, cfgVars, f_error_number, call, order>>

ss_next ==
  /\ pc = "ss_next"
  /\ fr' = [fr EXCEPT !.ss_pTest = tests_buf[fr.ss_pTest].pNext]
  /\ suites_buf' = IF fr.ss_result = "CUE_SUCCESS"
                   THEN [suites_buf EXCEPT ![fr.pSuite].uiNumberOfTestsFailed = @ + 1]
                   ELSE [suites_buf EXCEPT ![fr.pSuite].uiNumberOfTestsSuccess = @ + 1]
  /\ pc' = "ss_loop"
  /\ UNCHANGED <<tests_buf, test_db_storage_info, registry, f_pTestRegistry, runVars,
                 cfgVars, f_error_number, call, order, hist>>

ss_after_loop ==
  /\ pc = "ss_after_loop"
  /\ f_run_summary' = [f_run_summary EXCEPT !.nSuitesRun = @ + 1]
  /\ pc' = IF suites_buf[fr.pSuite].pCleanupFunc THEN "u_cleanup" ELSE "ss_finish"
  /\ hist' = Called(hist, pc')
  /\ UNCHANGED <<dbVars, curVars, failure_records_buf, test_run_storage_info,
                 f_failure_list, f_last_failure, cfgVars, f_error_number, fr, call, order>>

\* The suite cleanup function returns rv.
cleanup_return(rv) ==
  /\ pc = "u_cleanup"
  /\ pc' = IF rv # 0
           THEN IF handlers.SuiteCleanupFailure THEN "u_cleanup_failure"
                ELSE IF fr.entry = "CU_run_test" THEN "rt_cleanup_failed"
                ELSE "ss_cleanup_failed"
           ELSE IF fr.entry = "CU_run_test" THEN "rt_finish" ELSE "ss_finish"
  /\ hist' = Called([hist EXCEPT !.clean = IF rv # 0 THEN "failed" ELSE "ok"], pc')
  /\ UNCHANGED <<dbVars, runVars, cfgVars, f_error_number, fr, call, order>>

cleanup_failure_return ==
  ReturnTo("u_cleanup_failure",
           IF fr.entry = "CU_run_test" THEN "rt_cleanup_failed" ELSE "ss_cleanup_failed")

\* A variant of ss_cleanup_failed that does not count the suite as failed.
ss_cleanup_failed_uncounted ==
  /\ pc = "ss_cleanup_failed"
  /\ SetFailures(add_failure(Failures, "CUF_SuiteCleanupFailed",
                             0, fr.pSuite, NULL))
  /\ fr' = [fr EXCEPT !.ss_result = FirstError(@, "CUE_SCLEAN_FAILED")]
  /\ pc' = "ss_finish"
  /\ UNCHANGED <<dbVars, curVars, cfgVars, f_error_number, call, order, hist>>

ss_cleanup_failed ==
  /\ pc = "ss_cleanup_failed"
  /\ SetFailures(add_failure(Bump(Failures, "nSuitesFailed"), "CUF_SuiteCleanupFailed",
                             0, fr.pSuite, NULL))
  /\ fr' = [fr EXCEPT !.ss_result = FirstError(@, "CUE_SCLEAN_FAILED")]
  /\ pc' = "ss_finish"
  /\ UNCHANGED <<dbVars, curVars, cfgVars, f_error_number, call, order, hist>>

ss_finish ==
  /\ pc = "ss_finish"
  /\ fr' = [fr EXCEPT !.ss_pLastFailure =
                        NewFailures(fr.ss_nStartFailures, fr.ss_pLastFailure)]
  /\ pc' = IF handlers.SuiteComplete THEN "u_suite_complete" ELSE "ss_ret"
  /\ hist' = Called(hist, pc')
  /\ UNCHANGED <<dbVars, runVars, cfgVars, f_error_number, call, order>>

suite_complete_return ==
  ReturnTo("u_suite_complete", IF fr.entry = "CU_run_test" THEN "run_end" ELSE "ss_ret")

\* run_single_suite returns to CU_run_all_tests or to CU_run_suite.
ss_ret ==
  /\ pc = "ss_ret"
  /\ f_pCurSuite' = NULL
  /\ IF fr.entry = "CU_run_all_tests"
     THEN /\ fr' = [fr EXCEPT !.result = FirstError(@, fr.ss_result),
                              !.pSuite = suites_buf[fr.pSuite].pNext]
          /\ pc' = "ra_loop"
     ELSE /\ fr' = [fr EXCEPT !.result = fr.ss_result]
          /\ pc' = "run_end"
  /\ hist' = [hist EXCEPT !.results = Append(@, fr.ss_result)]
  /\ UNCHANGED <<dbVars, f_bTestIsRunning, f_pCurTest, failVars, cfgVars,
                 f_error_number, call, order>>

(***************************************************************************)
(* run_single_test(fr.st_pTest).                                           *)
(***************************************************************************)
st_enter ==
  /\ pc = "st_enter"
  /\ IF f_pCurSuite = NULL \/ fr.st_pTest = NULL
        \/ suites_buf[f_pCurSuite].fActive = CU_FALSE
     THEN Abort("run_single_test")
     ELSE /\ fr' = [fr EXCEPT !.st_pLastFailure = f_last_failure,
                              !.st_nStartFailures = f_run_summary.nFailureRecords,
                              !.st_result = "CUE_SUCCESS"]
          /\ f_pCurTest' = fr.st_pTest
          /\ pc' = IF handlers.TestStart THEN "u_test_start" ELSE "st_active"
          /\ hist' = Called([hist EXCEPT !.tn = NoCalls, !.incs = 0, !.jumped = "no",
                                         !.tbefore = f_run_summary], pc')
          /\ UNCHANGED <<dbVars, f_bTestIsRunning, f_pCurSuite, failVars, cfgVars,
                         f_error_number, call, order>>

test_start_return == ReturnTo("u_test_start", "st_active")

\* f_pCurSuite->member is read where a nested run has left f_pCurSuite null:
\* undefined behaviour.  Either the read traps and the process ends, or it
\* yields a null member and the run goes on to label.
NullRead(op, label) ==
  \/ /\ pc' = "aborted"
     /\ call' = Returned(op, NULL, "trap")
     /\ UNCHANGED hist
  \/ /\ pc' = label
     /\ hist' = Called(hist, label)
     /\ UNCHANGED call

st_active ==
  /\ pc = "st_active"
  /\ IF tests_buf[fr.st_pTest].fActive # CU_FALSE
     THEN /\ IF f_pCurSuite = NULL
             THEN NullRead("run_single_test", "st_setjmp")
             ELSE /\ pc' = IF suites_buf[f_pCurSuite].pSetUpFunc
                           THEN "u_setup" ELSE "st_setjmp"
                  /\ hist' = Called(hist, pc')
                  /\ UNCHANGED call
          /\ UNCHANGED <<failVars, fr>>
     ELSE /\ SetFailures(IF f_failure_on_inactive # CU_FALSE
                         THEN add_failure(Bump(Failures, "nTestsInactive"),
                                "CUF_TestInactive", 0, f_pCurSuite, f_pCurTest)
                         ELSE Bump(Failures, "nTestsInactive"))
          /\ fr' = [fr EXCEPT !.st_result = "CUE_TEST_INACTIVE"]
          /\ pc' = "st_finish"
          /\ UNCHANGED <<hist, call>>
  /\ UNCHANGED <<dbVars, curVars, cfgVars, f_error_number, order>>

setup_return == ReturnTo("u_setup", "st_setjmp")

\* pTest->pJumpBuf = &buf; setjmp(buf) returns 0; the test function is called.
st_setjmp ==
  /\ pc = "st_setjmp"
  /\ tests_buf' = [tests_buf EXCEPT ![fr.st_pTest].pJumpBuf = TRUE]
  /\ pc' = IF tests_buf[fr.st_pTest].pTestFunc THEN "u_test" ELSE "st_teardown"
  /\ hist' = Called([hist EXCEPT !.tests = IF pc' = "u_test"
                                           THEN Append(@, fr.st_pTest) ELSE @], pc')
  /\ UNCHANGED <<suites_buf, test_db_storage_info, registry, f_pTestRegistry, runVars,
                 cfgVars, f_error_number, fr, call, order>>

test_return == ReturnTo("u_test", "st_teardown")

\* Reached when the test function returns and when setjmp returns nonzero.
st_teardown ==
  /\ pc = "st_teardown"
  /\ IF f_pCurSuite = NULL
     THEN NullRead("run_single_test", "st_count")
     ELSE /\ pc' = IF suites_buf[f_pCurSuite].pTearDownFunc
                   THEN "u_teardown" ELSE "st_count"
          /\ hist' = Called(hist, pc')
          /\ UNCHANGED call
  /\ UNCHANGED <<dbVars, runVars, cfgVars, f_error_number, fr, order>>

teardown_return == ReturnTo("u_teardown", "st_count")

st_count ==
  /\ pc = "st_count"
  /\ f_run_summary' = [f_run_summary EXCEPT !.nTestsRun = @ + 1]
  /\ hist' = [hist EXCEPT !.incs = @ + 1]
  /\ pc' = "st_finish"
  /\ UNCHANGED <<dbVars, curVars, failure_records_buf, test_run_storage_info,
                 f_failure_list, f_last_failure, cfgVars, f_error_number, fr, call, order>>

\* A variant of st_finish that makes a test with new failure records return
\* an error code.
st_finish_fails_the_test ==
  /\ pc = "st_finish"
  /\ f_run_summary' = IF f_run_summary.nFailureRecords > fr.st_nStartFailures
                      THEN [f_run_summary EXCEPT !.nTestsFailed = @ + 1]
                      ELSE f_run_summary
  /\ fr' = [fr EXCEPT !.st_pLastFailure =
                        NewFailures(fr.st_nStartFailures, fr.st_pLastFailure),
                      !.st_result = IF f_run_summary.nFailureRecords > fr.st_nStartFailures
                                    THEN "CUE_TEST_FAILED" ELSE @]
  /\ pc' = IF handlers.TestComplete THEN "u_test_complete" ELSE "st_ret"
  /\ hist' = Called(hist, pc')
  /\ UNCHANGED <<dbVars, curVars, failure_records_buf, test_run_storage_info,
                 f_failure_list, f_last_failure, cfgVars, f_error_number, call, order>>

st_finish ==
  /\ pc = "st_finish"
  /\ f_run_summary' = IF f_run_summary.nFailureRecords > fr.st_nStartFailures
                      THEN [f_run_summary EXCEPT !.nTestsFailed = @ + 1]
                      ELSE f_run_summary
  /\ fr' = [fr EXCEPT !.st_pLastFailure =
                        NewFailures(fr.st_nStartFailures, fr.st_pLastFailure)]
  /\ pc' = IF handlers.TestComplete THEN "u_test_complete" ELSE "st_ret"
  /\ hist' = Called(hist, pc')
  /\ UNCHANGED <<dbVars, curVars, failure_records_buf, test_run_storage_info,
                 f_failure_list, f_last_failure, cfgVars, f_error_number, call, order>>

test_complete_return == ReturnTo("u_test_complete", "st_ret")

\* A variant of st_ret that leaves the current test set.
st_ret_keeps_test ==
  /\ pc = "st_ret"
  /\ tests_buf' = [tests_buf EXCEPT ![fr.st_pTest].pJumpBuf = FALSE]
  /\ f_pCurTest' = f_pCurTest
  /\ IF fr.entry = "CU_run_test"
     THEN /\ fr' = [fr EXCEPT !.result = FirstError(@, fr.st_result)]
          /\ pc' = "rt_after_test"
     ELSE /\ fr' = [fr EXCEPT !.ss_result = FirstError(@, fr.st_result)]
          /\ pc' = "ss_next"
  /\ hist' = [hist EXCEPT !.tbefore = ZeroSummary]
  /\ UNCHANGED <<suites_buf, test_db_storage_info, registry, f_pTestRegistry,
                 f_bTestIsRunning, f_pCurSuite, failVars, cfgVars, f_error_number, call,
                 order>>

\* run_single_test returns to run_single_suite or to CU_run_test.
st_ret ==
  /\ pc = "st_ret"
  /\ tests_buf' = [tests_buf EXCEPT ![fr.st_pTest].pJumpBuf = FALSE]
  /\ f_pCurTest' = NULL
  /\ IF fr.entry = "CU_run_test"
     THEN /\ fr' = [fr EXCEPT !.result = FirstError(@, fr.st_result)]
          /\ pc' = "rt_after_test"
     ELSE /\ fr' = [fr EXCEPT !.ss_result = FirstError(@, fr.st_result)]
          /\ pc' = "ss_next"
  /\ hist' = [hist EXCEPT !.tbefore = ZeroSummary]
  /\ UNCHANGED <<suites_buf, test_db_storage_info, registry, f_pTestRegistry,
                 f_bTestIsRunning, f_pCurSuite, failVars, cfgVars, f_error_number, call,
                 order>>

(***************************************************************************)
(* CU_run_test: the steps around its call of run_single_test.              *)
(***************************************************************************)
rt_init ==
  /\ pc = "rt_init"
  /\ fr' = [fr EXCEPT !.st_pTest = fr.pTest]
  /\ pc' = IF suites_buf[fr.pSuite].pInitializeFunc THEN "u_init" ELSE "st_enter"
  /\ hist' = Called(hist, pc')
  /\ UNCHANGED <<dbVars, runVars, cfgVars, f_error_number, call, order>>

rt_init_failed ==
  /\ pc = "rt_init_failed"
  /\ SetFailures(add_failure(Bump(Failures, "nSuitesFailed"), "CUF_SuiteInitFailed", 0,
                             fr.pSuite, NULL))
  /\ fr' = [fr EXCEPT !.result = "CUE_SINIT_FAILED"]
  /\ pc' = "rt_finish"
  /\ UNCHANGED <<dbVars, curVars, cfgVars, f_error_number, call, order, hist>>

rt_after_test ==
  /\ pc = "rt_after_test"
  /\ pc' = IF suites_buf[fr.pSuite].pCleanupFunc THEN "u_cleanup" ELSE "rt_finish"
  /\ hist' = Called(hist, pc')
  /\ UNCHANGED <<dbVars, runVars, cfgVars, f_error_number, fr, call, order>>

rt_cleanup_failed ==
  /\ pc = "rt_cleanup_failed"
  /\ SetFailures(add_failure(Bump(Failures, "nSuitesFailed"), "CUF_SuiteCleanupFailed",
                             0, fr.pSuite, NULL))
  /\ fr' = [fr EXCEPT !.result = FirstError(@, "CUE_SCLEAN_FAILED")]
  /\ pc' = "rt_finish"
  /\ UNCHANGED <<dbVars, curVars, cfgVars, f_error_number, call, order, hist>>

rt_finish ==
  /\ pc = "rt_finish"
  /\ pc' = IF handlers.SuiteComplete THEN "u_suite_complete" ELSE "run_end"
  /\ hist' = Called(hist, pc')
  /\ UNCHANGED <<dbVars, runVars, cfgVars, f_error_number, fr, call, order>>

all_complete_return == ReturnTo("u_all_complete", "run_ret")

\* The failure record a completion handler is called with.
HandlerArg ==
  CASE pc = "u_test_complete" -> fr.st_pLastFailure
    [] pc = "u_suite_complete" ->
         IF fr.entry = "CU_run_test" THEN NULL ELSE fr.ss_pLastFailure
    [] pc = "u_all_complete" -> f_failure_list

(***************************************************************************)
(* The state after static initialisation, before any call.                 *)
(***************************************************************************)
Init ==
  /\ suites_buf = [s \in SuiteSlots |-> ZeroSuite]
  /\ tests_buf = [t \in TestSlots |-> ZeroTest]
  /\ test_db_storage_info = [currSuiteIndex |-> 0, currTestIndex |-> 0]
  /\ registry = ZeroRegistry
  /\ f_pTestRegistry = NULL
  /\ f_bTestIsRunning = CU_FALSE
  /\ f_pCurSuite = NULL
  /\ f_pCurTest = NULL
  /\ f_run_summary = ZeroSummary
  /\ f_failure_list = NULL
  /\ f_last_failure = NULL
  /\ f_failure_on_inactive = CU_TRUE
  /\ failure_records_buf = [f \in FailureSlots |-> ZeroFailure]
  /\ test_run_storage_info = [currFailureIndex |-> 0]
  /\ handlers = NoHandlers
  /\ f_error_number = "CUE_SUCCESS"
  /\ f_error_action = "CUEA_IGNORE"
  /\ pc = "idle"
  /\ fr = ZeroFrame
  /\ call = Returned("none", NULL, "CUE_SUCCESS")
  /\ order = [suites |-> <<>>, tests |-> [s \in SuiteSlots |-> <<>>],
              sname |-> [s \in SuiteSlots |-> <<>>],
              tname |-> [t \in TestSlots |-> <<>>]]
  /\ hist = ZeroHist

(***************************************************************************)
(* TestDB.c: name lookup, called by user code.                             *)
(***************************************************************************)
\* CU_get_suite is declared in TestDB.h; its definition is not part of the
\* sources.  By its specification it is a case-insensitive linear scan of
\* the active registry that returns the first match, or NULL.
CU_get_suite(strName, beyond) ==
  LET l == RegistrySuites
      hits == {i \in 1..Len(l) :
                 /\ suites_buf[l[i]].pName
                 /\ CU_compare_strings(StringAt(suites_buf[l[i]].name, beyond[l[i]]),
                                       strName) = 0}
  IN IF f_pTestRegistry = NULL \/ strName = NullStr \/ hits = {} THEN NULL
     ELSE l[CHOOSE i \in hits : \A j \in hits : i <= j]

GetSuite(strName) ==
  LET error == IF f_pTestRegistry = NULL THEN "CUE_NOREGISTRY"
               ELSE IF strName = NullStr THEN "CUE_NO_SUITENAME"
               ELSE "CUE_SUCCESS"
  IN /\ UserCtx
     /\ f_error_number' = error
     /\ \E beyond \in Beyond(suites_buf) :
          call' = Returned("CU_get_suite", CU_get_suite(strName, beyond), error)
     /\ UNCHANGED <<dbVars, runVars, cfgVars, frameVars, order>>

GetTestByName(szTestName, pSuite) ==
  /\ UserCtx
  /\ IF pSuite = NULL \/ szTestName = NullStr
     THEN Abort("CU_get_test_by_name")
     ELSE /\ \E beyond \in Beyond(tests_buf) :
               call' = Returned("CU_get_test_by_name",
                                CU_get_test_by_name(szTestName, pSuite, beyond),
                                f_error_number)
          /\ UNCHANGED <<dbVars, runVars, cfgVars, f_error_number, frameVars, order>>

(***************************************************************************)
(* User programs.  A program configures the framework, registers suites    *)
(* and tests, and runs them; the callbacks it supplies make assertions.    *)
(***************************************************************************)
Names == {<<97>>}

NoFuncs == [init |-> FALSE, clean |-> FALSE, setup |-> FALSE, tear |-> FALSE]
AllFuncs == [init |-> TRUE, clean |-> TRUE, setup |-> TRUE, tear |-> TRUE]

\* The program installs its handlers first, in this order.
HandlerOrder ==
  <<"SuiteStart", "TestStart", "TestComplete", "SuiteComplete", "AllTestsComplete",
    "SuiteInitFailure", "SuiteCleanupFailure">>

AllHandlers == [kind \in DOMAIN NoHandlers |-> TRUE]

\* A bare program has no callbacks but the test functions; a full one has all.
Bare == handlers = NoHandlers
Full == handlers = AllHandlers
ProgramFuncs == IF Full THEN AllFuncs ELSE NoFuncs

Configuring ==
  pc = "idle" /\ f_pTestRegistry = NULL /\ test_db_storage_info.currSuiteIndex = 0
  /\ hist = ZeroHist

Registering == pc = "idle" /\ hist = ZeroHist

Running == pc = "idle"

\* The suite and the test registered last.
LastSuite == test_db_storage_info.currSuiteIndex
LastTest == test_db_storage_info.currTestIndex

UsedSuites == 1..test_db_storage_info.currSuiteIndex
UsedTests == 1..test_db_storage_info.currTestIndex

InstallHandlers ==
  \E i \in DOMAIN HandlerOrder :
    /\ Configuring
    /\ \A j \in 1..(i - 1) : handlers[HandlerOrder[j]]
    /\ CU_set_handler(HandlerOrder[i], TRUE)

Step ==
  \/ ra_loop
  \/ ss_enter \/ ss_active \/ ss_init_failed \/ ss_tests \/ ss_loop \/ ss_next
  \/ ss_after_loop \/ ss_cleanup_failed \/ ss_finish \/ ss_ret
  \/ st_enter \/ st_active \/ st_setjmp \/ st_teardown \/ st_count \/ st_finish \/ st_ret
  \/ rt_init \/ rt_init_failed \/ rt_after_test \/ rt_cleanup_failed \/ rt_finish
  \/ run_end \/ run_ret

CallbackReturn ==
  \/ suite_start_return
  \/ \E rv \in {0, 1} : init_return(rv)
  \/ init_failure_return
  \/ test_start_return
  \/ setup_return
  \/ test_return
  \/ teardown_return
  \/ test_complete_return
  \/ \E rv \in {0, 1} : cleanup_return(rv)
  \/ cleanup_failure_return
  \/ suite_complete_return
  \/ all_complete_return

UserAssert ==
  /\ hist.asserts < MaxAsserts
  /\ \E bValue \in BOOLEAN, bFatal \in BOOLEAN : CU_assertImplementation(bValue, 10, bFatal)

Entry ==
  \/ CU_run_all_tests
  \/ \E pSuite \in {NULL} \cup UsedSuites : CU_run_suite(pSuite)
  \/ \E pSuite \in {NULL} \cup UsedSuites, pTest \in {NULL} \cup UsedTests :
       CU_run_test(pSuite, pTest)

AfterRun ==
  \/ Running /\ hist.runs > 0 /\ CU_cleanup_registry
  \/ Running /\ HadResults /\ CU_clear_previous_results

(***************************************************************************)
(* Spec: bare and full programs with up to MAX_NUM_OF_SUITES suites, any   *)
(* inactive, under every setting, making one call of a run entry point.    *)
(***************************************************************************)
Register ==
  \/ f_pTestRegistry = NULL /\ CU_initialize_registry
  \/ f_pTestRegistry # NULL /\ \E n \in Names :
       CU_add_suite_with_setup_and_teardown(n, ProgramFuncs.init, ProgramFuncs.clean,
                                            ProgramFuncs.setup, ProgramFuncs.tear)
  \/ LastSuite # NULL /\ \E n \in Names : CU_add_test(LastSuite, n, TRUE)
  \/ LastSuite # NULL /\ call.op = "CU_add_suite" /\ SetSuiteActive(LastSuite, CU_FALSE)
  \/ LastTest # NULL /\ call.op = "CU_add_test" /\ SetTestActive(LastTest, CU_FALSE)

Next ==
  \/ InstallHandlers
  \/ Configuring /\ (Bare \/ Full) /\ CU_set_fail_on_inactive(CU_FALSE)
  \/ Configuring /\ (Bare \/ Full) /\ CU_set_error_action("CUEA_FAIL")
  \/ Registering /\ (Bare \/ Full) /\ Register
  \/ Running /\ (Bare \/ Full) /\ hist.runs < MaxRuns /\ Entry
  \/ AfterRun
  \/ UserAssert
  \/ Step
  \/ CallbackReturn

Spec == Init /\ [][Next]_vars

(***************************************************************************)
(* SpecRerun: a full program with one suite that calls the run entry       *)
(* points MaxReruns times, so that a call finds the results of the one     *)
(* before it.                                                              *)
(***************************************************************************)
RegisterOne ==
  \/ f_pTestRegistry = NULL /\ CU_initialize_registry
  \/ f_pTestRegistry # NULL /\ LastSuite = NULL /\ \E n \in Names :
       CU_add_suite_with_setup_and_teardown(n, TRUE, TRUE, TRUE, TRUE)
  \/ LastSuite # NULL /\ \E n \in Names : CU_add_test(LastSuite, n, TRUE)
  \/ LastSuite # NULL /\ call.op = "CU_add_suite" /\ SetSuiteActive(LastSuite, CU_FALSE)

NextRerun ==
  \/ InstallHandlers
  \/ Registering /\ Full /\ RegisterOne
  \/ Running /\ Full /\ hist.runs < MaxReruns /\ Entry
  \/ AfterRun
  \/ Running /\ HadResults /\ f_pTestRegistry # NULL /\ CU_set_registry(NULL)
  \/ UserAssert
  \/ Step
  \/ CallbackReturn

SpecRerun == Init /\ [][NextRerun]_vars

(***************************************************************************)
(* SpecDB: a program that only builds, looks up and tears down registries, *)
(* with names that differ, names that differ in case only, and no name.    *)
(***************************************************************************)
DBNames == {<<97>>, <<65>>, <<97, 98, 99>>}

\* The program looks up the name of the object it has just registered.
Added(op) == call.op = op /\ call.ret # NULL

SuiteOf(pTest) == CHOOSE s \in SuiteSlots : pTest \in Range(SuiteTests(s))

NextDB ==
  \/ CU_initialize_registry
  \/ CU_cleanup_registry
  \/ \E n \in DBNames \cup {NullStr} :
       CU_add_suite_with_setup_and_teardown(n, FALSE, FALSE, FALSE, FALSE)
  \/ \E pSuite \in UsedSuites, n \in DBNames : CU_add_test(pSuite, n, TRUE)
  \/ CU_add_test(NULL, <<97>>, TRUE)
  \/ LastSuite # NULL /\ CU_add_test(LastSuite, NullStr, TRUE)
  \/ LastSuite # NULL /\ CU_add_test(LastSuite, <<97>>, FALSE)
  \/ Added("CU_add_suite") /\ GetSuite(order.sname[call.ret])
  \/ Added("CU_add_test")
       /\ GetTestByName(order.tname[call.ret], SuiteOf(call.ret))

SpecDB == Init /\ [][NextDB]_vars

(***************************************************************************)
(* SpecMisuse: a full program with one suite whose callbacks call the      *)
(* registry interface while the run that invoked them is in progress.      *)
(***************************************************************************)
InCallback == pc \in UserPCs

Misuse ==
  \/ CU_initialize_registry
  \/ CU_cleanup_registry
  \/ \E pRegistry \in {NULL, 1} : CU_set_registry(pRegistry)
  \/ \E n \in Names : CU_add_suite_with_setup_and_teardown(n, FALSE, FALSE, FALSE, FALSE)
  \/ \E pSuite \in UsedSuites, n \in Names : CU_add_test(pSuite, n, TRUE)
  \/ CU_create_new_registry
  \/ CU_destroy_existing_registry(f_pTestRegistry)

NextMisuse ==
  \/ InstallHandlers
  \/ Registering /\ Full /\ RegisterOne
  \/ Running /\ Full /\ hist.runs < MaxRuns /\ Entry
  \/ InCallback /\ Misuse
  \/ Step
  \/ CallbackReturn

SpecMisuse == Init /\ [][NextMisuse]_vars

(***************************************************************************)
(* SpecNested: a full program with one suite whose callbacks call the run  *)
(* entry points while the run that invoked them is in progress.            *)
(***************************************************************************)
NextNested ==
  \/ InstallHandlers
  \/ Registering /\ Full /\ RegisterOne
  \/ Running /\ Full /\ hist.runs < MaxRuns /\ Entry
  \/ InCallback /\ hist.runs < MaxReruns /\ Entry
  \/ Step
  \/ CallbackReturn

SpecNested == Init /\ [][NextNested]_vars

(***************************************************************************)
(* SpecAssert: a full program with one suite and one test whose callbacks  *)
(* make up to MaxTestAsserts assertions, of any value and kind, in a run.  *)
(***************************************************************************)
NextAssert ==
  \/ InstallHandlers
  \/ Registering /\ Full /\ RegisterOne
  \/ Running /\ Full /\ hist.runs < MaxRuns /\ Entry
  \/ /\ hist.asserts < MaxTestAsserts
     /\ \E bValue \in BOOLEAN, bFatal \in BOOLEAN :
          CU_assertImplementation(bValue, 10, bFatal)
  \/ Step
  \/ CallbackReturn

SpecAssert == Init /\ [][NextAssert]_vars

(***************************************************************************)
(* Properties.                                                             *)
(***************************************************************************)
IsPrefix(a, b) == Len(a) <= Len(b) /\ a = SubSeq(b, 1, Len(a))

RECURSIVE Flatten(_, _)
Flatten(f, ss) == IF ss = <<>> THEN <<>> ELSE f[Head(ss)] \o Flatten(f, Tail(ss))

IsActiveTest(t) == tests_buf[t].fActive # CU_FALSE

\* The tests of suite s whose test function the current run has called, in call order.
CalledTestsOf(s) == SelectSeq(hist.tests, LAMBDA t : t \in Range(order.tests[s]))

\* The active tests of suite s in the order they were added.
ActiveTestsOf(s) == SelectSeq(order.tests[s], IsActiveTest)

\* C1: a run of all tests visits the suites in the order they were registered
\* and, within each suite, calls the test functions in the order the tests were
\* added; a run that returns success has visited every suite and called every
\* active test of every active suite.
C1_RegistrationOrder ==
  fr.entry = "CU_run_all_tests" =>
    /\ IsPrefix(hist.suites, order.suites)
    /\ hist.tests = Flatten([s \in SuiteSlots |-> CalledTestsOf(s)], hist.suites)
    /\ \A s \in Range(hist.suites) : IsPrefix(CalledTestsOf(s), ActiveTestsOf(s))
    /\ (pc = "run_ret" /\ f_error_action = "CUEA_IGNORE") => hist.suites = order.suites
    /\ (pc = "run_ret" /\ fr.result = "CUE_SUCCESS") =>
         /\ hist.suites = order.suites
         /\ \A s \in Range(order.suites) :
              CalledTestsOf(s) = IF suites_buf[s].fActive # CU_FALSE
                                 THEN ActiveTestsOf(s) ELSE <<>>

\* A run of all tests over two suites ends, having called the two tests of one suite.
C1_Witness ==
  /\ pc = "run_ret"
  /\ fr.entry = "CU_run_all_tests"
  /\ Len(hist.suites) >= 2
  /\ \E s \in SuiteSlots : Len(order.tests[s]) >= 2 /\ hist.tests = order.tests[s]

\* C2: in every state the failure-record count of the run summary is the
\* number of records reachable from the head of the failure list.
C2_FailureCount == f_run_summary.nFailureRecords = Len(FailureList)

\* The pool of failure records is exhausted and a failure was not recorded.
C2_Witness ==
  /\ test_run_storage_info.currFailureIndex = MAX_NUM_OF_TESTS
  /\ Len(FailureList) > 0
  /\ f_run_summary.nAssertsFailed + f_run_summary.nSuitesFailed
       > f_run_summary.nFailureRecords

AfterTeardown ==
  {"st_count", "st_finish", "u_test_complete", "st_ret", "ss_next", "ss_loop",
   "rt_after_test"}

AfterCount == AfterTeardown \ {"st_count"}

\* C3: once a failing fatal assertion was raised in the test function, the
\* function is not resumed or called again, the teardown function of the suite
\* (if any) is called once for the test, the number of tests run is incremented
\* once for it, and the loop of the suite moves to the test after it with its
\* condition on the result still true.
C3_FatalAbortInTestBody ==
  hist.jumped = "u_test" =>
    /\ pc # "u_test"
    /\ hist.tn["u_test"] = 1
    /\ pc \in AfterTeardown =>
         hist.tn["u_teardown"] = IF suites_buf[fr.pSuite].pTearDownFunc THEN 1 ELSE 0
    /\ pc \in AfterCount =>
         hist.incs = 1 /\ f_run_summary.nTestsRun >= 1
    /\ pc = "ss_loop" =>
         fr.ss_pTest = tests_buf[fr.st_pTest].pNext /\ KeepGoing(fr.ss_result)

\* The loop is at the test after one whose function was aborted and torn down.
C3_Witness ==
  /\ pc = "ss_loop"
  /\ hist.jumped = "u_test"
  /\ fr.ss_pTest # NULL
  /\ hist.tn["u_teardown"] = 1

\* C4: no lifecycle step of a test (the call of the test function, the call of
\* the teardown function, the increment of the number of tests run) is executed
\* twice for one execution of the test.
C4_ForwardOnly ==
  /\ hist.tn["u_test"] <= 1
  /\ hist.tn["u_teardown"] <= 1
  /\ hist.incs <= 1

\* A failing fatal assertion was raised in the teardown function.
C4_Witness == hist.jumped = "u_teardown"

\* What the suite being run has added to the failure records so far.
RecordsAdded == f_run_summary.nFailureRecords - hist.before.nFailureRecords

PoolExhausted == test_run_storage_info.currFailureIndex = MAX_NUM_OF_TESTS

LastRecordIs(type) ==
  f_last_failure # NULL /\ failure_records_buf[f_last_failure].type = type

\* The run is done with a suite whose initialization function returned nonzero.
InitFailedDone ==
  hist.init = "failed" /\ pc \in {"ss_finish", "rt_finish", "u_suite_complete", "ss_ret"}

InitFailedEffects ==
  /\ hist.sn["u_init"] = 1
  /\ hist.sn["u_test"] = 0
  /\ hist.sn["u_setup"] = 0
  /\ hist.sn["u_teardown"] = 0
  /\ hist.sn["u_cleanup"] = 0
  /\ hist.sn["u_init_failure"] = IF handlers.SuiteInitFailure THEN 1 ELSE 0
  /\ f_run_summary.nSuitesFailed = hist.before.nSuitesFailed + 1
  /\ f_run_summary.nSuitesRun = hist.before.nSuitesRun
  /\ f_run_summary.nTestsRun = hist.before.nTestsRun

\* C5: when the initialization function of an active suite returns nonzero, no
\* test, setup, teardown or cleanup function of the suite is called, the suite
\* is counted failed and not run, the init-failure handler (if set) is called
\* once, and one CUF_SuiteInitFailed record is added unless the pool of
\* failure records is exhausted, in which case none is added.
C5_InitFailure ==
  InitFailedDone =>
    /\ InitFailedEffects
    /\ \/ RecordsAdded = 1 /\ LastRecordIs("CUF_SuiteInitFailed")
          /\ failure_records_buf[f_last_failure].pSuite = fr.pSuite
       \/ RecordsAdded = 0 /\ PoolExhausted

\* The init-failure handler has run and the failure has been recorded.
C5_Witness ==
  /\ InitFailedDone
  /\ handlers.SuiteInitFailure
  /\ RecordsAdded = 1
  /\ LastRecordIs("CUF_SuiteInitFailed")

\* C5 as stated: exactly one CUF_SuiteInitFailed record is added.
C5_ExactlyOneRecord ==
  InitFailedDone =>
    /\ InitFailedEffects
    /\ RecordsAdded = 1
    /\ LastRecordIs("CUF_SuiteInitFailed")

\* The run is done with an inactive suite: run_single_suite is past its
\* branch, or CU_run_test has returned CUE_SUITE_INACTIVE.
InactiveSuiteDone ==
  \/ /\ pc \in {"ss_finish", "u_suite_complete", "ss_ret"}
     /\ suites_buf[fr.pSuite].fActive = CU_FALSE
  \/ /\ pc = "idle"
     /\ call = Returned("CU_run_test", "CUE_SUITE_INACTIVE", "CUE_SUITE_INACTIVE")

InactiveSuiteEffects ==
  /\ hist.sn["u_init"] = 0
  /\ hist.sn["u_cleanup"] = 0
  /\ hist.sn["u_test"] = 0
  /\ hist.sn["u_setup"] = 0
  /\ hist.sn["u_teardown"] = 0
  /\ f_run_summary.nSuitesInactive = hist.before.nSuitesInactive + 1
  /\ f_run_summary.nSuitesRun = hist.before.nSuitesRun
  /\ f_run_summary.nTestsRun = hist.before.nTestsRun

\* C6: an inactive suite reached by a run has none of its test, initialization
\* and cleanup functions called and is counted inactive; with fail-on-inactive
\* disabled it adds no failure record, and with it enabled it adds one
\* CUF_SuiteInactive record unless the pool of failure records is exhausted,
\* in which case it adds none.
C6_InactiveSuite ==
  InactiveSuiteDone =>
    /\ InactiveSuiteEffects
    /\ IF f_failure_on_inactive # CU_FALSE
       THEN \/ RecordsAdded = 1 /\ LastRecordIs("CUF_SuiteInactive")
               /\ suites_buf[failure_records_buf[f_last_failure].pSuite].fActive = CU_FALSE
            \/ RecordsAdded = 0 /\ PoolExhausted
       ELSE RecordsAdded = 0

\* A run of all tests or of a suite has recorded an inactive suite.
C6_Witness ==
  /\ pc = "ss_finish"
  /\ suites_buf[fr.pSuite].fActive = CU_FALSE
  /\ f_failure_on_inactive # CU_FALSE
  /\ RecordsAdded = 1
  /\ LastRecordIs("CUF_SuiteInactive")

\* C6 as stated: with fail-on-inactive enabled exactly one record is added.
C6_ExactlyOneRecord ==
  InactiveSuiteDone =>
    /\ InactiveSuiteEffects
    /\ RecordsAdded = IF f_failure_on_inactive # CU_FALSE THEN 1 ELSE 0

\* The registry interface as a caller sees it: the active registry, its
\* counts, the suites in list order and, for each, its fields and its tests.
TestView(t) == tests_buf[t]

SuiteView(s) ==
  [suite |-> suites_buf[s], tests |-> [i \in DOMAIN SuiteTests(s) |-> TestView(SuiteTests(s)[i])],
   links |-> SuiteTests(s)]

RegistryView ==
  [pRegistry |-> f_pTestRegistry,
   uiNumberOfSuites |-> registry.uiNumberOfSuites,
   uiNumberOfTests |-> registry.uiNumberOfTests,
   suites |-> RegistrySuites,
   views |-> [i \in DOMAIN RegistrySuites |-> SuiteView(RegistrySuites[i])]]

SuitePoolExhausted == test_db_storage_info.currSuiteIndex >= MAX_NUM_OF_SUITES

AddSuiteCall(n) == CU_add_suite_with_setup_and_teardown(n, FALSE, FALSE, FALSE, FALSE)

\* C7: a call of CU_add_suite on an initialized registry, with a name, when
\* the pool of suites is exhausted returns NULL and sets CUE_NOMEMORY, and the
\* registry, its suite count, the suites in their order, their fields and
\* their tests are what they were.
C7_AddSuitePoolExhausted ==
  [][\A n \in DBNames :
       (f_pTestRegistry # NULL /\ SuitePoolExhausted /\ AddSuiteCall(n)) =>
         /\ call'.ret = NULL
         /\ call'.err = "CUE_NOMEMORY"
         /\ f_error_number' = "CUE_NOMEMORY"
         /\ RegistryView' = RegistryView
         /\ Len(RegistrySuites') = registry'.uiNumberOfSuites]_vars

\* CU_add_suite has returned CUE_NOMEMORY and the registry holds its suites.
C7_Witness ==
  /\ call = Returned("CU_add_suite", NULL, "CUE_NOMEMORY")
  /\ f_pTestRegistry # NULL
  /\ Len(RegistrySuites) = registry.uiNumberOfSuites
  /\ registry.uiNumberOfSuites > 0

\* Names that the lookups take for the same name.
SameName(a, b) ==
  Len(a) = Len(b) /\ \A i \in 1..Len(a) : toupper(a[i]) = toupper(b[i])

\* The first object of a sequence of registrations that was registered under
\* the name; NULL if none.
FirstRegistered(regs, nameOf, n) ==
  LET hits == {i \in 1..Len(regs) : SameName(nameOf[regs[i]], n)}
  IN IF hits = {} THEN NULL
     ELSE regs[CHOOSE i \in hits : \A j \in hits : i <= j]

DuplicateSuiteAdded(n) ==
  (/\ f_pTestRegistry # NULL
   /\ ~SuitePoolExhausted
   /\ FirstRegistered(order.suites, order.sname, n) # NULL
   /\ AddSuiteCall(n)) =>
     /\ call'.ret \notin {NULL} \cup Range(RegistrySuites)
     /\ call'.err = "CUE_DUP_SUITE"
     /\ f_error_number' = "CUE_DUP_SUITE"
     /\ RegistrySuites' = Append(RegistrySuites, call'.ret)
     /\ registry'.uiNumberOfSuites = registry.uiNumberOfSuites + 1

DuplicateTestAdded(pSuite, n) ==
  (/\ f_pTestRegistry # NULL
   /\ test_db_storage_info.currTestIndex < MAX_NUM_OF_TESTS
   /\ FirstRegistered(order.tests[pSuite], order.tname, n) # NULL
   /\ CU_add_test(pSuite, n, TRUE)) =>
     /\ call'.ret \notin {NULL} \cup Range(SuiteTests(pSuite))
     /\ call'.err = "CUE_DUP_TEST"
     /\ f_error_number' = "CUE_DUP_TEST"
     /\ SuiteTests(pSuite)' = Append(SuiteTests(pSuite), call'.ret)
     /\ suites_buf'[pSuite].uiNumberOfTests = suites_buf[pSuite].uiNumberOfTests + 1
     /\ registry'.uiNumberOfTests = registry.uiNumberOfTests + 1

TestLookedUp(pSuite, n) ==
  GetTestByName(n, pSuite) =>
    call'.ret = FirstRegistered(order.tests[pSuite], order.tname, n)

\* C8: adding a suite, or a test to a suite, under a name that is already
\* registered there appends the new object at the tail, counts it, returns it
\* and sets CUE_DUP_SUITE or CUE_DUP_TEST; and CU_get_test_by_name returns
\* the test registered first under the name.
C8_DuplicateNames ==
  [][/\ \A n \in DBNames : DuplicateSuiteAdded(n)
     /\ \A n \in DBNames : \A pSuite \in UsedSuites : DuplicateTestAdded(pSuite, n)
     /\ \A n \in DBNames : \A pSuite \in UsedSuites : TestLookedUp(pSuite, n)]_vars

\* A suite has been added a second time under a name longer than the name
\* buffer, and CU_add_suite has reported success.
C8_Witness ==
  /\ call.op = "CU_add_suite"
  /\ call.ret = 2
  /\ call.err = "CUE_SUCCESS"
  /\ order.suites = <<1, 2>>
  /\ order.sname[1] = order.sname[2]

\* A step that is a call of a run entry point.
EntryCall == pc = "idle" /\ hist'.runs = hist.runs + 1

\* CU_run_test on an inactive suite returns at once, having counted the suite
\* and recorded it if the setting says so.
InactiveReturn == pc' = "idle" /\ call'.err = "CUE_SUITE_INACTIVE"

ParameterErrors == {"CUE_NOREGISTRY", "CUE_NOSUITE", "CUE_NOTEST", "CUE_TEST_NOT_IN_SUITE"}

\* C9: a call of CU_run_all_tests, CU_run_suite or CU_run_test leaves every
\* counter of the run summary zero and the failure list empty before anything
\* of the new run is counted, also when it returns a parameter error; only
\* the inactive suite CU_run_test was called on is counted, by this call.
C9_EntryResets ==
  [][EntryCall =>
       IF InactiveReturn
       THEN /\ f_run_summary' = [ZeroSummary EXCEPT !.nSuitesInactive = 1,
                                                    !.nFailureRecords = Len(FailureList')]
            /\ FailureList' \in {<<>>, <<test_run_storage_info.currFailureIndex + 1>>}
            /\ \A i \in DOMAIN FailureList' :
                 failure_records_buf'[FailureList'[i]].type = "CUF_SuiteInactive"
       ELSE /\ f_run_summary' = ZeroSummary
            /\ f_failure_list' = NULL
            /\ f_last_failure' = NULL]_vars

\* A run entry point found the results of the run before it and returned a
\* parameter error, and the summary and the failure list are empty.
C9_Witness ==
  /\ pc = "idle"
  /\ hist.cleared
  /\ hist.runs = 2
  /\ call.op = "CU_run_all_tests"
  /\ call.err = "CUE_NOREGISTRY"
  /\ f_run_summary = ZeroSummary
  /\ f_failure_list = NULL

\* The active registry: its identity, its suite list, the test lists and the counts.
ActiveRegistry ==
  [pRegistry |-> f_pTestRegistry,
   uiNumberOfSuites |-> registry.uiNumberOfSuites,
   uiNumberOfTests |-> registry.uiNumberOfTests,
   suites |-> RegistrySuites,
   tests |-> [s \in SuiteSlots |-> SuiteTests(s)],
   counts |-> [s \in SuiteSlots |-> suites_buf[s].uiNumberOfTests]]

\* C10: while f_bTestIsRunning is true, a step that does not end in a failed
\* assert() leaves the active registry as it is.
C10_RegistryGuarded ==
  [][(f_bTestIsRunning /\ pc' # "aborted") => ActiveRegistry' = ActiveRegistry]_vars

\* A callback of a run in progress has called CU_create_new_registry, and the
\* run goes on with an active registry that has lost its suites.
C10_Witness ==
  /\ f_bTestIsRunning
  /\ pc \in UserPCs
  /\ call.op = "CU_create_new_registry"
  /\ f_pTestRegistry # NULL
  /\ RegistrySuites = <<>>
  /\ order.tests[1] # <<>>

(***************************************************************************)
(* C11: a run entry point called while the run-in-progress flag is set     *)
(* (from a test function, a hook or a handler) is rejected by a fatal      *)
(* precondition check: it starts no nested run and leaves the run summary  *)
(* and the failure list of the outer run as they were.                     *)
(***************************************************************************)
NestedEntryCall == pc \in UserPCs /\ hist'.runs = hist.runs + 1

C11_NestedEntryRejected ==
  [][(f_bTestIsRunning # CU_FALSE /\ NestedEntryCall)
       => (pc' = "aborted" /\ UNCHANGED <<failVars, fr>>)]_vars

\* A nested run is in progress, started from a callback of a run whose flag
\* was set, and the results the outer run had gathered were cleared.
C11_Witness ==
  /\ fr.outer # <<>>
  /\ Head(fr.outer).pc \in UserPCs \ {"u_all_complete"}
  /\ hist.cleared
  /\ pc \in UserPCs
(***************************************************************************)
(* C12: whenever the run-in-progress flag is false, the current suite and  *)
(* the current test are both null, at every point where user code can      *)
(* observe the engine: before and after a call of any run entry point and  *)
(* inside every callback, the all-complete handler included.               *)
(***************************************************************************)
C12_IdleHasNoCurrent ==
  (UserCtx /\ f_bTestIsRunning = CU_FALSE) => (f_pCurSuite = NULL /\ f_pCurTest = NULL)

\* The all-complete handler of CU_run_test runs with the flag cleared and the
\* current suite still set.
C12_Witness ==
  /\ pc = "u_all_complete"
  /\ fr.entry = "CU_run_test"
  /\ f_bTestIsRunning = CU_FALSE
  /\ f_pCurSuite = fr.pSuite
  /\ f_pCurSuite # NULL
(***************************************************************************)
(* C13: while a test function, a setup or teardown function, or the        *)
(* test-start or test-complete handler executes, the current suite is the  *)
(* suite being run and the current test is the test being run; while a     *)
(* suite initialization or cleanup function, or the suite-start or         *)
(* suite-complete handler executes, the current suite is that suite and    *)
(* the current test is null, so that an assertion made there fails the     *)
(* precondition of the assertion entry point.                              *)
(***************************************************************************)
TestCallbacks == {"u_test_start", "u_setup", "u_test", "u_teardown", "u_test_complete"}
SuiteCallbacks == {"u_suite_start", "u_init", "u_cleanup", "u_suite_complete"}

CurrentInCallbacks ==
  /\ pc \in TestCallbacks =>
       /\ f_pCurSuite = fr.pSuite /\ f_pCurSuite = hist.suites[Len(hist.suites)]
       /\ f_pCurSuite # NULL
       /\ f_pCurTest = fr.st_pTest /\ f_pCurTest # NULL
  /\ pc \in SuiteCallbacks =>
       /\ f_pCurSuite = fr.pSuite /\ f_pCurSuite = hist.suites[Len(hist.suites)]
       /\ f_pCurSuite # NULL
       /\ f_pCurTest = NULL

AssertInSuiteCallbackFails ==
  pc \in SuiteCallbacks =>
    /\ hist'.asserts = hist.asserts
    /\ (call' # call /\ call'.op = "CU_assertImplementation") => pc' = "aborted"

C13_CurrentInCallbacks == []CurrentInCallbacks /\ [][AssertInSuiteCallbackFails]_vars

\* In the second suite of a run, after a test has run, an assertion made in a
\* suite-level callback has failed the precondition.
C13_Witness ==
  /\ pc = "aborted"
  /\ call.op = "CU_assertImplementation"
  /\ Len(hist.suites) = 2
  /\ hist.tests # <<>>
  /\ f_pCurSuite = hist.suites[Len(hist.suites)]
  /\ f_pCurTest = NULL
(***************************************************************************)
(* C14: every call of a run entry point that is given an existing registry *)
(* and non-null registered arguments (CU_run_all_tests, CU_run_suite,      *)
(* CU_run_test, a CU_run_test on an inactive suite included) ends with the *)
(* run-in-progress flag false and with the all-complete handler, if one is *)
(* set, invoked exactly once, after the flag was cleared, with the head of *)
(* the accumulated failure list.                                           *)
(***************************************************************************)
EntryReturns ==
  /\ pc' = "idle"
  /\ pc = "run_ret" \/ (pc = "idle" /\ hist'.runs = hist.runs + 1)
  /\ call'.err \notin ParameterErrors

AllCompleteCalledOnce ==
  EntryReturns =>
    /\ f_bTestIsRunning' = CU_FALSE
    /\ handlers.AllTestsComplete => hist.sn["u_all_complete"] = 1

InAllComplete ==
  pc = "u_all_complete" => (f_bTestIsRunning = CU_FALSE /\ HandlerArg = f_failure_list)

C14_AllCompleteOnce == []InAllComplete /\ [][AllCompleteCalledOnce]_vars

\* CU_run_test on an inactive suite has returned, with a failure recorded and
\* an all-complete handler set.
C14_Witness ==
  /\ pc = "idle"
  /\ call.op = "CU_run_test"
  /\ call.err = "CUE_SUITE_INACTIVE"
  /\ handlers.AllTestsComplete
  /\ f_failure_list # NULL
(***************************************************************************)
(* C15: for every suite a run entry point executes, the suite-complete     *)
(* handler is invoked exactly once, after the suite's tests and its        *)
(* cleanup function, with the first failure record appended during the     *)
(* run of that suite, or with none exactly when no record was appended.    *)
(***************************************************************************)
\* The first record appended since the run of the current suite began.
FirstNewOfSuite ==
  IF Len(FailureList) > hist.before.nFailureRecords
  THEN FailureList[hist.before.nFailureRecords + 1]
  ELSE NULL

\* Where control can be once the suite-complete handler has been invoked.
AfterSuiteComplete ==
  {"u_suite_complete", "ss_ret", "ra_loop", "ss_enter", "run_end", "u_all_complete",
   "run_ret", "aborted"}

SuiteDone == pc = "ss_ret" \/ (pc = "run_end" /\ fr.entry = "CU_run_test")

SuiteCompleteHandler ==
  /\ pc = "u_suite_complete" => HandlerArg = FirstNewOfSuite
  /\ hist.sn["u_suite_complete"] > 0 => pc \in AfterSuiteComplete
  /\ SuiteDone => hist.sn["u_suite_complete"] = IF handlers.SuiteComplete THEN 1 ELSE 0

C15_SuiteCompleteHandler == []SuiteCompleteHandler

\* The suite-complete handler of CU_run_test runs after a failure was recorded.
C15_Witness ==
  /\ pc = "u_suite_complete"
  /\ fr.entry = "CU_run_test"
  /\ HandlerArg = NULL
  /\ FirstNewOfSuite # NULL
(***************************************************************************)
(* C16: for every test executed, the test-complete handler is invoked      *)
(* exactly once, with the first failure record appended during the         *)
(* execution of that test, or with none exactly when no record was         *)
(* appended; a record appended before the test began is never passed.      *)
(***************************************************************************)
\* The first record appended since run_single_test was entered.
FirstNewOfTest ==
  IF Len(FailureList) > fr.st_nStartFailures
  THEN FailureList[fr.st_nStartFailures + 1]
  ELSE NULL

\* The step that invokes the test-complete handler.
TestCompleteInvoked ==
  (pc = "st_finish" /\ pc' = "u_test_complete") =>
    /\ HandlerArg' = FirstNewOfTest'
    /\ hist'.tn["u_test_complete"] = 1

TestCompleteCount ==
  pc = "st_ret" => hist.tn["u_test_complete"] = IF handlers.TestComplete THEN 1 ELSE 0

C16_TestCompleteHandler == []TestCompleteCount /\ [][TestCompleteInvoked]_vars

\* The test-complete handler is running for the second time for one test, with
\* a record that is not the first one appended during the test.
C16_Witness ==
  /\ pc = "u_test_complete"
  /\ hist.tn["u_test_complete"] = 2
  /\ hist.jumped = "u_test_complete"
  /\ HandlerArg # NULL
  /\ HandlerArg # FirstNewOfTest
(***************************************************************************)
(* C17: for every active test executed, these events happen in this order, *)
(* each exactly once: the test-start handler, the setup function (if       *)
(* present), the test function, the teardown function (if present), the    *)
(* increment of the tests-run counter, the test-complete handler; and the  *)
(* whole sequence lies between the call of the suite's initialization      *)
(* function and the call of its cleanup function.                          *)
(***************************************************************************)
TestEvents ==
  <<"u_test_start", "u_setup", "u_test", "u_teardown", "st_count", "u_test_complete">>

\* How often an event has happened for the current test.
EventCount(e) == IF e = "st_count" THEN hist.incs ELSE hist.tn[e]

\* Whether the event is due for the current test.
EventDue(e) ==
  CASE e = "u_test_start" -> handlers.TestStart
    [] e = "u_setup" -> suites_buf[fr.pSuite].pSetUpFunc
    [] e = "u_test" -> tests_buf[fr.st_pTest].pTestFunc
    [] e = "u_teardown" -> suites_buf[fr.pSuite].pTearDownFunc
    [] e = "st_count" -> TRUE
    [] e = "u_test_complete" -> handlers.TestComplete

\* The events before position i have happened once if due, those after it not.
EventsUpTo(i) ==
  \A j \in DOMAIN TestEvents :
    EventCount(TestEvents[j]) = IF j < i THEN (IF EventDue(TestEvents[j]) THEN 1 ELSE 0)
                                ELSE IF j = i THEN 1 ELSE 0

WithinSuite ==
  /\ hist.sn["u_init"] = IF suites_buf[fr.pSuite].pInitializeFunc THEN 1 ELSE 0
  /\ hist.init # "failed"
  /\ hist.sn["u_cleanup"] = 0

TestEventOrder ==
  /\ \A i \in DOMAIN TestEvents :
       (pc = TestEvents[i] /\ pc \in UserPCs /\ IsActiveTest(fr.st_pTest))
         => (EventsUpTo(i) /\ WithinSuite)
  /\ (pc = "st_ret" /\ IsActiveTest(fr.st_pTest))
       => (EventsUpTo(Len(TestEvents) + 1) /\ WithinSuite)

C17_TestEventOrder == []TestEventOrder

\* The teardown function is running for the second time for one test, after a
\* fatal assertion it made itself.
C17_Witness ==
  /\ pc = "u_teardown"
  /\ hist.jumped = "u_teardown"
  /\ hist.tn["u_teardown"] = 2
  /\ hist.tn["u_test"] = 1
(***************************************************************************)
(* C18: for an inactive test reached during the run of an active suite,    *)
(* through any entry point: the test-start handler is invoked for it; none *)
(* of the setup, test and teardown functions is called; nTestsInactive     *)
(* goes up by one and nTestsRun is unchanged; exactly one CUF_TestInactive *)
(* record is appended when fail-on-inactive is enabled and none when it is *)
(* disabled.                                                               *)
(***************************************************************************)
\* The step in which the run deals with an inactive test: in the loop of
\* run_single_suite, or in run_single_test called by CU_run_test.
InactiveTestInSuite == pc = "ss_loop" /\ pc' = "ss_next"
InactiveTestInTest == pc = "st_active" /\ pc' = "st_finish"

InactiveTestCounted ==
  /\ f_run_summary'.nTestsInactive = f_run_summary.nTestsInactive + 1
  /\ f_run_summary'.nTestsRun = f_run_summary.nTestsRun
  /\ \A e \in {"u_setup", "u_test", "u_teardown"} : hist'.tn[e] = 0

InactiveTestRecorded(pTest) ==
  IF f_failure_on_inactive # CU_FALSE
  THEN /\ f_run_summary'.nFailureRecords = f_run_summary.nFailureRecords + 1
       /\ LastRecordIs("CUF_TestInactive")'
       /\ failure_records_buf'[f_last_failure'].pTest = pTest
  ELSE UNCHANGED <<f_failure_list, f_last_failure, failure_records_buf>>

TestStartInvoked == handlers.TestStart => hist'.tn["u_test_start"] = 1

InactiveTestHandled ==
  /\ InactiveTestInSuite =>
       InactiveTestCounted /\ InactiveTestRecorded(fr.ss_pTest) /\ TestStartInvoked
  /\ InactiveTestInTest =>
       InactiveTestCounted /\ InactiveTestRecorded(fr.st_pTest) /\ TestStartInvoked

C18_InactiveTest == [][InactiveTestHandled]_vars

\* run_single_suite has passed over an inactive test with a test-start
\* handler set, and has recorded it.
C18_Witness ==
  /\ pc = "ss_next"
  /\ ~IsActiveTest(fr.ss_pTest)
  /\ handlers.TestStart
  /\ hist.tn["u_test_start"] = 0
  /\ LastRecordIs("CUF_TestInactive")
  /\ failure_records_buf[f_last_failure].pTest = fr.ss_pTest
(***************************************************************************)
(* C19: for an active suite whose initialization function is absent or     *)
(* returned zero, the cleanup function (if present) is called exactly      *)
(* once, after the last test, whether or not tests failed or were aborted; *)
(* when it returns nonzero the suite is counted failed, the cleanup-       *)
(* failure handler (if set) is invoked once, and one                       *)
(* CUF_SuiteCleanupFailed record is appended unless the pool of failure    *)
(* records is exhausted, in which case none is appended.                   *)
(***************************************************************************)
\* The run is past the cleanup of an active suite that was initialized.
CleanupDone ==
  /\ pc \in {"ss_finish", "rt_finish", "u_suite_complete", "ss_ret"}
  /\ suites_buf[fr.pSuite].fActive # CU_FALSE
  /\ hist.init # "failed"

\* Where control can be once the cleanup function has been called.
AfterCleanup ==
  {"u_cleanup", "u_cleanup_failure", "ss_cleanup_failed", "rt_cleanup_failed",
   "ss_finish", "rt_finish"} \cup AfterSuiteComplete

CleanupRecords ==
  {f \in Range(FailureList) :
     /\ failure_records_buf[f].type = "CUF_SuiteCleanupFailed"
     /\ failure_records_buf[f].pSuite = fr.pSuite}

CleanupEffects ==
  /\ hist.sn["u_cleanup"] = IF suites_buf[fr.pSuite].pCleanupFunc THEN 1 ELSE 0
  /\ IF hist.clean = "failed"
     THEN /\ f_run_summary.nSuitesFailed = hist.before.nSuitesFailed + 1
          /\ hist.sn["u_cleanup_failure"] = IF handlers.SuiteCleanupFailure THEN 1 ELSE 0
     ELSE /\ f_run_summary.nSuitesFailed = hist.before.nSuitesFailed
          /\ hist.sn["u_cleanup_failure"] = 0
          /\ CleanupRecords = {}

CleanupAfterTests == hist.sn["u_cleanup"] > 0 => pc \in AfterCleanup

C19_CleanupFailure ==
  /\ CleanupAfterTests
  /\ CleanupDone =>
       /\ CleanupEffects
       /\ hist.clean = "failed" =>
            \/ Cardinality(CleanupRecords) = 1 /\ f_last_failure \in CleanupRecords
            \/ CleanupRecords = {} /\ PoolExhausted

\* The cleanup function returned nonzero after a test of the suite had failed
\* an assertion; the handler has run and the failure has been recorded.
C19_Witness ==
  /\ CleanupDone
  /\ hist.clean = "failed"
  /\ handlers.SuiteCleanupFailure
  /\ Cardinality(CleanupRecords) = 1
  /\ RecordsAdded = 2

\* C19 as stated: exactly one CUF_SuiteCleanupFailed record is appended.
C19_ExactlyOneRecord ==
  /\ CleanupAfterTests
  /\ CleanupDone =>
       /\ CleanupEffects
       /\ hist.clean = "failed" => Cardinality(CleanupRecords) = 1
(***************************************************************************)
(* C20: CU_run_all_tests returns, and stores as the last error, the first  *)
(* error code other than CUE_SUCCESS that a suite produced, in             *)
(* registration order, or CUE_SUCCESS when there was none; under           *)
(* CUEA_IGNORE every registered suite is run, errors or not, and under any *)
(* other error action no suite is run after the first one that produced an *)
(* error code.                                                             *)
(***************************************************************************)
Failed(results) == {i \in DOMAIN results : results[i] # "CUE_SUCCESS"}

FirstFailure(results) ==
  IF Failed(results) = {} THEN "CUE_SUCCESS"
  ELSE results[CHOOSE i \in Failed(results) : \A j \in Failed(results) : i <= j]

RunAllDone == pc = "run_ret" /\ fr.entry = "CU_run_all_tests"

RunAllResult ==
  RunAllDone =>
    /\ Len(hist.results) = Len(hist.suites)
    /\ fr.result = FirstFailure(hist.results)
    /\ IsPrefix(hist.suites, order.suites)
    /\ IF f_error_action = "CUEA_IGNORE"
       THEN hist.suites = order.suites
       ELSE /\ Failed(hist.results) \subseteq {Len(hist.results)}
            /\ Failed(hist.results) = {} => hist.suites = order.suites

RunAllReturns ==
  RunAllDone => (call'.err = fr.result /\ call'.ret = fr.result /\ f_error_number' = fr.result)

C20_RunAllFirstError == []RunAllResult /\ [][RunAllReturns]_vars

\* Under CUEA_IGNORE two suites were run, both produced an error code, and
\* the run is about to return the first.
C20_Witness ==
  /\ RunAllDone
  /\ f_error_action = "CUEA_IGNORE"
  /\ Len(hist.results) = 2
  /\ Failed(hist.results) = {1, 2}
  /\ hist.results[1] # hist.results[2]
  /\ fr.result = hist.results[1]
(***************************************************************************)
(* C21: each assertion call made inside a running test increments nAsserts *)
(* by exactly one, and nAssertsFailed by exactly one iff the value is      *)
(* false, so that nAssertsFailed <= nAsserts and the number of successes   *)
(* is nAsserts - nAssertsFailed in every reachable state; a call that      *)
(* returns to its caller returns the value it was given, and a failing     *)
(* non-fatal assertion does not stop the test function.                    *)
(***************************************************************************)
AssertCounted(bValue, bFatal) ==
  (CU_assertImplementation(bValue, 10, bFatal) /\ pc' # "aborted") =>
    /\ f_run_summary'.nAsserts = f_run_summary.nAsserts + 1
    /\ f_run_summary'.nAssertsFailed =
         f_run_summary.nAssertsFailed + IF bValue THEN 0 ELSE 1
    /\ CU_get_number_of_successes' = CU_get_number_of_successes + IF bValue THEN 1 ELSE 0
    /\ call'.err = "return" => (call'.ret = bValue /\ pc' = pc)
    /\ (bValue \/ ~bFatal) => call'.err = "return"

AssertCounters ==
  /\ f_run_summary.nAssertsFailed <= f_run_summary.nAsserts
  /\ CU_get_number_of_successes >= 0
  /\ CU_get_number_of_successes + f_run_summary.nAssertsFailed = f_run_summary.nAsserts

AssertCalls == \A bValue \in BOOLEAN, bFatal \in BOOLEAN : AssertCounted(bValue, bFatal)

C21_AssertCounters == []AssertCounters /\ [][AssertCalls]_vars

\* The test function goes on after a failing non-fatal assertion, its third
\* assertion, one of the earlier ones having passed.
C21_Witness ==
  /\ pc = "u_test"
  /\ call = Returned("CU_assertImplementation", FALSE, "return")
  /\ f_run_summary.nAsserts = 3
  /\ f_run_summary.nAssertsFailed = 2
  /\ CU_get_number_of_successes = 1
(***************************************************************************)
(* C22: in any run, every executed active test during which at least one   *)
(* assertion evaluated false is counted exactly once in nTestsFailed, and  *)
(* every executed active test during which no failure was raised is not    *)
(* counted, however many failures earlier tests or runs recorded.          *)
(***************************************************************************)
\* run_single_test is past the teardown of an active test and settles
\* whether the test has failed.
ActiveTestSettled == pc = "st_finish" /\ IsActiveTest(fr.st_pTest)

FailedAssertsOfTest == f_run_summary.nAssertsFailed - hist.tbefore.nAssertsFailed
TestsFailedByTest == f_run_summary.nTestsFailed - hist.tbefore.nTestsFailed

TestFailureCounted ==
  ActiveTestSettled => TestsFailedByTest' = IF FailedAssertsOfTest > 0 THEN 1 ELSE 0

C22_TestsFailed == [][TestFailureCounted]_vars

\* A test whose only assertion failed, after the failure-record pool was used
\* up by earlier tests, is not counted as failed.
C22_Witness ==
  /\ pc = "st_ret"
  /\ IsActiveTest(fr.st_pTest)
  /\ FailedAssertsOfTest = 1
  /\ TestsFailedByTest = 0
  /\ PoolExhausted
  /\ hist.jumped = "no"

(***************************************************************************)
(* SpecAdd: a program that builds and tears down registries and passes     *)
(* CU_add_suite and CU_add_test every combination of present and missing   *)
(* arguments.                                                              *)
(***************************************************************************)
AddNames == {<<97>>, <<98>>}

NextAdd ==
  \/ CU_initialize_registry
  \/ CU_cleanup_registry
  \/ \E n \in AddNames \cup {NullStr} :
       CU_add_suite_with_setup_and_teardown(n, FALSE, FALSE, FALSE, FALSE)
  \/ \E pSuite \in {NULL} \cup UsedSuites, n \in AddNames \cup {NullStr},
        pTestFunc \in BOOLEAN : CU_add_test(pSuite, n, pTestFunc)

SpecAdd == Init /\ [][NextAdd]_vars

\* What a call that registers nothing leaves alone: the registry and its
\* counts, the suites and tests in their slots, and the pool indices.
NothingRegistered ==
  /\ call'.ret = NULL
  /\ RegistryView' = RegistryView
  /\ registry' = registry
  /\ suites_buf' = suites_buf
  /\ tests_buf' = tests_buf
  /\ test_db_storage_info' = test_db_storage_info

AddSuiteRejected(n) ==
  ((f_pTestRegistry = NULL \/ n = NullStr) /\ AddSuiteCall(n)) =>
    LET error == IF f_pTestRegistry = NULL THEN "CUE_NOREGISTRY" ELSE "CUE_NO_SUITENAME"
    IN /\ call'.err = error
       /\ f_error_number' = error
       /\ NothingRegistered

AddSuiteAccepted(n) ==
  (AddSuiteCall(n) /\ call'.err \in {"CUE_SUCCESS", "CUE_DUP_SUITE"}) =>
    /\ call'.ret \in SuiteSlots
    /\ suites_buf'[call'.ret].fActive = CU_TRUE
    /\ suites_buf'[call'.ret].pTest = NULL
    /\ suites_buf'[call'.ret].uiNumberOfTests = 0
    /\ RegistrySuites' = Append(RegistrySuites, call'.ret)
    /\ registry'.uiNumberOfSuites = registry.uiNumberOfSuites + 1
    /\ test_db_storage_info'.currSuiteIndex = test_db_storage_info.currSuiteIndex + 1

AddSuiteOutcome ==
  call'.op = "CU_add_suite" =>
    \A n \in DBNames \cup {NullStr} : AddSuiteRejected(n) /\ AddSuiteAccepted(n)

AddTestArgs ==
  ({NULL} \cup UsedSuites) \X (AddNames \cup {NullStr}) \X BOOLEAN

\* The error of the first precondition of CU_add_test that does not hold.
FirstViolated(pSuite, n, pTestFunc) ==
  IF f_pTestRegistry = NULL THEN "CUE_NOREGISTRY"
  ELSE IF pSuite = NULL THEN "CUE_NOSUITE"
  ELSE IF n = NullStr THEN "CUE_NO_TESTNAME"
  ELSE IF ~pTestFunc THEN "CUE_NOTEST"
  ELSE "none"

AddTestRejected(pSuite, n, pTestFunc) ==
  (FirstViolated(pSuite, n, pTestFunc) # "none" /\ CU_add_test(pSuite, n, pTestFunc)) =>
    /\ call'.err = FirstViolated(pSuite, n, pTestFunc)
    /\ f_error_number' = FirstViolated(pSuite, n, pTestFunc)
    /\ NothingRegistered

AddTestAccepted(pSuite, n, pTestFunc) ==
  CU_add_test(pSuite, n, pTestFunc) =>
    /\ FirstViolated(pSuite, n, pTestFunc) = "none"
    /\ call'.ret \in TestSlots
    /\ tests_buf'[call'.ret].fActive = CU_TRUE
    /\ SuiteTests(pSuite)' = Append(SuiteTests(pSuite), call'.ret)
    /\ suites_buf'[pSuite].uiNumberOfTests = suites_buf[pSuite].uiNumberOfTests + 1
    /\ registry'.uiNumberOfTests = registry.uiNumberOfTests + 1

\* A step that is a call of CU_add_test either sets CUE_SUCCESS or
\* CUE_DUP_TEST, or it does not.
AddTestOutcome ==
  call'.op = "CU_add_test" =>
    IF call'.err \in {"CUE_SUCCESS", "CUE_DUP_TEST"}
    THEN \A args \in AddTestArgs : AddTestAccepted(args[1], args[2], args[3])
    ELSE \A args \in AddTestArgs : AddTestRejected(args[1], args[2], args[3])

\* C24: CU_add_test tests the registry, the suite, the name and the test
\* function in this order and sets CUE_NOREGISTRY, CUE_NOSUITE,
\* CUE_NO_TESTNAME or CUE_NOTEST for the first that is missing, returning NULL
\* and changing nothing; when it sets CUE_SUCCESS or CUE_DUP_TEST the test
\* count of the registry and that of the suite have each grown by one and the
\* new test is active and the last test of the suite.
C24_AddTestOutcome == [][AddTestOutcome]_vars

\* A suite has been given two tests and a call with a name and no test
\* function has then been turned down.
C24_Witness ==
  /\ call = Returned("CU_add_test", NULL, "CUE_NOTEST")
  /\ SuiteTests(1) = <<1, 2>>
  /\ suites_buf[1].uiNumberOfTests = 2
  /\ registry.uiNumberOfTests = 2
  /\ tests_buf[2].fActive = CU_TRUE

TestPoolExhausted == test_db_storage_info.currTestIndex >= MAX_NUM_OF_TESTS

AddTestNoMemory(pSuite, n, pTestFunc) ==
  (/\ FirstViolated(pSuite, n, pTestFunc) = "none"
   /\ TestPoolExhausted
   /\ CU_add_test(pSuite, n, pTestFunc)) =>
     /\ call'.err = "CUE_NOMEMORY"
     /\ f_error_number' = "CUE_NOMEMORY"
     /\ NothingRegistered
     /\ \A s \in SuiteSlots : SuiteTests(s)' = SuiteTests(s)

\* C25: a call of CU_add_test with a registry, a suite, a name and a test
\* function, made when the pool of tests is used up, returns NULL and sets
\* CUE_NOMEMORY, and the test count of the registry, the test count and the
\* test list of the suite, and every other suite and test are what they were.
C25_AddTestPoolExhausted ==
  [][call'.op = "CU_add_test" =>
       \A args \in AddTestArgs : AddTestNoMemory(args[1], args[2], args[3])]_vars

\* Two suites hold the two tests of the pool, and a third call of
\* CU_add_test has returned NULL with CUE_NOMEMORY.
C25_Witness ==
  /\ call = Returned("CU_add_test", NULL, "CUE_NOMEMORY")
  /\ TestPoolExhausted
  /\ SuiteTests(1) = <<1>>
  /\ SuiteTests(2) = <<2>>
  /\ registry.uiNumberOfTests = 2

(***************************************************************************)
(* SpecRegistry: a full program with one suite that makes one call of a    *)
(* run entry point and afterwards, the run over, initialises, cleans up,   *)
(* swaps, creates and destroys registries and adds suites.                 *)
(***************************************************************************)
AfterTheRun == pc = "idle" /\ hist.runs > 0

RegistryOps ==
  \/ CU_initialize_registry
  \/ CU_cleanup_registry
  \/ \E pRegistry \in {NULL, 1} : CU_set_registry(pRegistry)
  \/ CU_create_new_registry
  \/ \E pRegistry \in {NULL, 1} : CU_destroy_existing_registry(pRegistry)
  \/ \E n \in Names : CU_add_suite_with_setup_and_teardown(n, FALSE, FALSE, FALSE, FALSE)

NextRegistry ==
  \/ InstallHandlers
  \/ Registering /\ Full /\ RegisterOne
  \/ Running /\ Full /\ hist.runs < MaxRuns /\ Entry
  \/ AfterTheRun /\ RegistryOps
  \/ UserAssert
  \/ Step
  \/ CallbackReturn

SpecRegistry == Init /\ [][NextRegistry]_vars

ResultsCleared == f_run_summary = ZeroSummary /\ f_failure_list = NULL

Initialized ==
  (CU_initialize_registry /\ ~f_bTestIsRunning /\ call'.ret = "CUE_SUCCESS") =>
    /\ f_pTestRegistry' # NULL
    /\ registry' = ZeroRegistry
    /\ RegistrySuites' = <<>>
    /\ ResultsCleared'

\* C26: when CU_initialize_registry, called outside a run, returns
\* CUE_SUCCESS, a registry is active that has no suites and no tests, and
\* the stored results are cleared: every counter of the run summary is zero
\* and the failure list is empty; whether or not a registry was active, held
\* suites, or had been swapped for NULL, and whether or not results were stored.
C26_Initialized == [][Initialized]_vars

\* CU_initialize_registry has returned CUE_SUCCESS after a run, and the
\* results of the run are still stored.
C26_Witness ==
  /\ pc = "idle"
  /\ call = Returned("CU_initialize_registry", "CUE_SUCCESS", "CUE_SUCCESS")
  /\ f_pTestRegistry # NULL
  /\ registry = ZeroRegistry
  /\ f_run_summary.nTestsRun = 1
  /\ f_failure_list # NULL

\* CU_cleanup_registry was the call made last, and has returned.
CleanedUp == call = Returned("CU_cleanup_registry", NULL, "CUE_SUCCESS")

CleanupEffect ==
  (CU_cleanup_registry /\ ~f_bTestIsRunning) =>
    /\ CleanedUp'
    /\ pc' = pc
    /\ f_pTestRegistry' = NULL
    /\ ResultsCleared'

CleanupAgain == (CleanedUp /\ CU_cleanup_registry) => UNCHANGED vars

AddSuiteAfterCleanup ==
  \A n \in Names :
    (CleanedUp /\ AddSuiteCall(n)) =>
      call' = Returned("CU_add_suite", NULL, "CUE_NOREGISTRY") /\ NothingRegistered

CleanupIdempotent == CleanupEffect /\ CleanupAgain /\ AddSuiteAfterCleanup

\* C27: outside a run CU_cleanup_registry returns from every state, and after
\* it no registry is active, every counter of the run summary is zero and the
\* failure list is empty; CU_add_suite called next sets CUE_NOREGISTRY, and
\* CU_cleanup_registry called next changes nothing.
C27_CleanupIdempotent == [][CleanupIdempotent]_vars

\* A run has stored a failure record, and CU_cleanup_registry has then taken
\* away a registry that held a suite, and the results.
C27_Witness ==
  /\ CleanedUp
  /\ hist.runs > 0
  /\ test_run_storage_info.currFailureIndex > 0
  /\ test_db_storage_info.currSuiteIndex > 0
  /\ f_pTestRegistry = NULL
  /\ registry = ZeroRegistry
  /\ ResultsCleared

Swapped(pRegistry) ==
  (CU_set_registry(pRegistry) /\ ~f_bTestIsRunning) =>
    /\ f_pTestRegistry' = pRegistry
    /\ call'.ret = f_pTestRegistry
    /\ registry' = registry
    /\ RegistrySuites' = RegistrySuites
    /\ \A s \in SuiteSlots : SuiteTests(s)' = SuiteTests(s)
    /\ suites_buf' = suites_buf
    /\ tests_buf' = tests_buf
    /\ f_run_summary' = f_run_summary
    /\ f_failure_list' = f_failure_list
    /\ failure_records_buf' = failure_records_buf

\* C28: CU_set_registry(pRegistry) makes pRegistry the active registry and
\* returns the one that was active; the suite list, the test lists and the
\* counts of both, the run summary and the failure list are what they were.
\* A call CU_set_registry(b) made after CU_set_registry(a) so returns a.
C28_Swapped == [][\A pRegistry \in {NULL, 1} : Swapped(pRegistry)]_vars

\* After a run that stored a failure record, the registry has been swapped
\* for NULL and swapped back: the second call has returned NULL, and the
\* registry holds its suite and the results are stored.
C28_Witness ==
  /\ call = Returned("CU_set_registry", NULL, "CUE_SUCCESS")
  /\ f_pTestRegistry = 1
  /\ hist.runs > 0
  /\ RegistrySuites = <<1>>
  /\ registry.uiNumberOfSuites = 1
  /\ f_failure_list # NULL

\* The suites, tests and counts of the registry that is active.
ActiveRegistryKept ==
  /\ f_pTestRegistry' = f_pTestRegistry
  /\ RegistryView' = RegistryView

IndependentCreated ==
  (f_pTestRegistry # NULL /\ CU_create_new_registry) =>
    /\ call'.ret \notin {NULL, f_pTestRegistry}
    /\ ActiveRegistryKept

\* The registry destroyed is the one CU_create_new_registry has just returned.
IndependentDestroyed ==
  \A pRegistry \in {1} :
    (/\ f_pTestRegistry # NULL
     /\ call.op = "CU_create_new_registry" /\ call.ret = pRegistry
     /\ CU_destroy_existing_registry(pRegistry)) => ActiveRegistryKept

\* C29: CU_create_new_registry returns an empty registry that is not the
\* active one and leaves the suite list, the suite count and the test count
\* of the active registry as they were, and destroying the registry it
\* returned leaves them as they were too.
C29_IndependentRegistry == [][IndependentCreated /\ IndependentDestroyed]_vars

\* CU_create_new_registry has returned the active registry, which held the
\* suite of the run and is now empty; the suite was not cleaned up.
C29_Witness ==
  /\ call.op = "CU_create_new_registry"
  /\ call.ret = f_pTestRegistry
  /\ f_pTestRegistry # NULL
  /\ hist.runs > 0
  /\ registry = ZeroRegistry
  /\ test_db_storage_info.currSuiteIndex = 1
  /\ suites_buf[1].pName
  /\ order.sname[1] # NullStr

\* The number of slots each pool has handed out is within its capacity.
PoolBounds ==
  /\ test_db_storage_info.currSuiteIndex \in 0..MAX_NUM_OF_SUITES
  /\ test_db_storage_info.currTestIndex \in 0..MAX_NUM_OF_TESTS

\* A step that returns a suite, or a test, from CU_add_suite or CU_add_test.
SuiteAdded == call'.op = "CU_add_suite" /\ call'.ret # NULL /\ call' # call
TestAdded == call'.op = "CU_add_test" /\ call'.ret # NULL /\ call' # call

\* Each pool index counts the calls that returned an object: such a call
\* takes the next slot, and no other step moves the index.
SlotsCounted ==
  /\ IF SuiteAdded
     THEN /\ call'.ret = test_db_storage_info.currSuiteIndex + 1
          /\ test_db_storage_info'.currSuiteIndex = test_db_storage_info.currSuiteIndex + 1
     ELSE test_db_storage_info'.currSuiteIndex = test_db_storage_info.currSuiteIndex
  /\ IF TestAdded
     THEN /\ call'.ret = test_db_storage_info.currTestIndex + 1
          /\ test_db_storage_info'.currTestIndex = test_db_storage_info.currTestIndex + 1
     ELSE test_db_storage_info'.currTestIndex = test_db_storage_info.currTestIndex

ExhaustedForGood ==
  /\ \A n \in AddNames :
       (SuitePoolExhausted /\ f_pTestRegistry # NULL /\ AddSuiteCall(n)) =>
         call' = Returned("CU_add_suite", NULL, "CUE_NOMEMORY")
  /\ \A args \in AddTestArgs :
       (/\ TestPoolExhausted
        /\ FirstViolated(args[1], args[2], args[3]) = "none"
        /\ CU_add_test(args[1], args[2], args[3])) =>
          call' = Returned("CU_add_test", NULL, "CUE_NOMEMORY")

DroppedFailure(bFatal) ==
  (/\ PoolExhausted
   /\ f_pCurSuite # NULL /\ f_pCurTest # NULL
   /\ CU_assertImplementation(FALSE, 10, bFatal)) =>
     /\ f_run_summary'.nAsserts = f_run_summary.nAsserts + 1
     /\ f_run_summary'.nAssertsFailed = f_run_summary.nAssertsFailed + 1
     /\ f_run_summary'.nFailureRecords = f_run_summary.nFailureRecords
     /\ f_failure_list' = f_failure_list
     /\ FailureList' = FailureList
     /\ failure_records_buf' = failure_records_buf
     /\ (bFatal /\ pc = "u_test") =>
          /\ pc' = AfterSetjmp
          /\ call' = Returned("CU_assertImplementation", FALSE, "longjmp")

\* C31: with the pool of failure records used up, a failing assertion still
\* increments nAsserts and nAssertsFailed, appends nothing to the failure
\* list and leaves nFailureRecords and every record there is as they were,
\* and a fatal one made in the test function still leaves the test function
\* by longjmp.
C31_DroppedFailure ==
  [][call'.op = "CU_assertImplementation" => \A bFatal \in BOOLEAN : DroppedFailure(bFatal)]_vars

\* Two failing assertions of a test have taken the two records of the pool,
\* and a third, fatal, has left the test function without a record.
C31_Witness ==
  /\ pc = AfterSetjmp
  /\ hist.jumped = "u_test"
  /\ call.op = "CU_assertImplementation" /\ call.err = "longjmp"
  /\ PoolExhausted
  /\ f_run_summary.nAssertsFailed = 3
  /\ f_run_summary.nFailureRecords = 2
  /\ Len(FailureList) = 2

\* The tests of the suite that run_single_suite has run, and those of them
\* that the run summary counts as failed.
TestsRunInSuite == f_run_summary.nTestsRun - hist.before.nTestsRun
TestsFailedInSuite == f_run_summary.nTestsFailed - hist.before.nTestsFailed

\* C32: when run_single_suite returns, uiNumberOfTestsFailed of the suite is
\* the number of its tests that failed in this run and
\* uiNumberOfTestsSuccess the number of its tests that passed in it.
C32_SuiteCounters ==
  pc = "ss_ret" =>
    /\ suites_buf[fr.pSuite].uiNumberOfTestsFailed = TestsFailedInSuite
    /\ suites_buf[fr.pSuite].uiNumberOfTestsSuccess = TestsRunInSuite - TestsFailedInSuite

\* A suite has run its one test, which made no assertion and did not fail,
\* and the suite counts one failed test and no passed one.
C32_Witness ==
  /\ pc = "ss_ret"
  /\ hist.jumped = "no"
  /\ f_run_summary.nAsserts = 0
  /\ TestsRunInSuite = 1
  /\ TestsFailedInSuite = 0
  /\ suites_buf[fr.pSuite].uiNumberOfTests = 1
  /\ suites_buf[fr.pSuite].uiNumberOfTestsFailed = 1
  /\ suites_buf[fr.pSuite].uiNumberOfTestsSuccess = 0

(***************************************************************************)
(* SpecNames: a program that registers suites and tests and looks tests    *)
(* up under names of which one is a prefix of another, names that differ  *)
(* in case only, and names as long as the name buffer and longer.          *)
(***************************************************************************)
CmpNames == {<<97>>, <<65>>, <<97, 98>>, <<97, 98, 99>>, <<65, 66, 67>>}

NextNames ==
  \/ f_pTestRegistry = NULL /\ CU_initialize_registry
  \/ \E n \in CmpNames : CU_add_suite_with_setup_and_teardown(n, FALSE, FALSE, FALSE, FALSE)
  \/ \E pSuite \in UsedSuites, n \in CmpNames : CU_add_test(pSuite, n, TRUE)
  \/ \E pSuite \in UsedSuites, n \in CmpNames : GetTestByName(n, pSuite)

SpecNames == Init /\ [][NextNames]_vars

\* CU_compare_strings returns 0 for the names of the same length that agree
\* character by character after case folding, and for no others.
NamesCompared ==
  \A a \in CmpNames : \A b \in CmpNames :
    (CU_compare_strings(a, b) = 0) <=> SameName(a, b)

\* The objects of a list that were registered under the name.
RegisteredAs(list, nameOf, n) == {x \in Range(list) : SameName(nameOf[x], n)}

SuiteDuplicateDetected(n) ==
  (AddSuiteCall(n) /\ call'.ret # NULL) =>
    (call'.err = "CUE_DUP_SUITE" <=> RegisteredAs(RegistrySuites, order.sname, n) # {})

TestDuplicateDetected(pSuite, n) ==
  (CU_add_test(pSuite, n, TRUE) /\ call'.ret # NULL) =>
    (call'.err = "CUE_DUP_TEST" <=> RegisteredAs(SuiteTests(pSuite), order.tname, n) # {})

TestFoundByName(pSuite, n) ==
  GetTestByName(n, pSuite) =>
    IF RegisteredAs(SuiteTests(pSuite), order.tname, n) = {}
    THEN call'.ret = NULL
    ELSE call'.ret \in RegisteredAs(SuiteTests(pSuite), order.tname, n)

NamesMatched ==
  /\ call'.op = "CU_add_suite" => \A n \in CmpNames : SuiteDuplicateDetected(n)
  /\ call'.op = "CU_add_test" =>
       \A pSuite \in UsedSuites : \A n \in CmpNames : TestDuplicateDetected(pSuite, n)
  /\ call'.op = "CU_get_test_by_name" =>
       \A pSuite \in UsedSuites : \A n \in CmpNames : TestFoundByName(pSuite, n)

\* C33: CU_compare_strings returns 0 exactly when the two names have the
\* same length and agree character by character after ASCII case folding; so
\* CU_add_suite and CU_add_test report a duplicate, and CU_get_test_by_name
\* finds a test, exactly for a name that is the registered one up to letter
\* case, and never for a proper prefix of it.
C33_NamesMatched == []NamesCompared /\ [][NamesMatched]_vars

\* A suite was registered as "abc", and a second suite registered as "ab"
\* has been reported a duplicate of it.
C33_Witness ==
  /\ order.suites = <<1, 2>>
  /\ order.sname[1] = <<97, 98, 99>>
  /\ order.sname[2] = <<97, 98>>
  /\ call.op = "CU_add_suite"
  /\ call.err = "CUE_DUP_SUITE"

\* How far run_single_test has got in the test it is running: the calls it
\* makes and the statements between them, in the order of the function body.
TestStage ==
  [st_enter |-> 0, u_test_start |-> 1, st_active |-> 2, u_setup |-> 3, st_setjmp |-> 4,
   u_test |-> 5, st_teardown |-> 6, u_teardown |-> 7, st_count |-> 8, st_finish |-> 9,
   u_test_complete |-> 10, st_ret |-> 11]

\* A step within one call of run_single_test takes it further down its body.
TestAdvances ==
  (/\ pc \in DOMAIN TestStage
   /\ pc' \in DOMAIN TestStage
   /\ fr'.st_pTest = fr.st_pTest
   /\ Len(fr'.outer) = Len(fr.outer)) => TestStage[pc'] > TestStage[pc]

\* C34: a call of a run entry point comes to its end whenever each callback
\* returns or raises a failing fatal assertion.  The run of a test is a
\* straight line from the test-start handler to the return of
\* run_single_test, so it ends if no step takes it back up the line: a
\* failing fatal assertion in the teardown function or in the test-complete
\* handler does not put run_single_test back before a call it has made.
C34_RunAdvances == [][TestAdvances]_vars

\* The test was run, torn down and counted, and a failing fatal assertion in
\* the test-complete handler has put run_single_test back before the call
\* of the teardown function.
C34_Witness ==
  /\ pc = "st_teardown"
  /\ hist.jumped = "u_test_complete"
  /\ hist.tn["u_teardown"] = 1
  /\ hist.tn["u_test_complete"] = 1
  /\ f_run_summary.nTestsRun = 1

\* A call of a run entry point has returned.
RunReturned == pc = "idle" /\ hist.runs > 0

\* nTestsRun - nTestsFailed as CU_get_run_results_string computes it.  A
\* negative value stands for one wrapped around in unsigned int.
TestsPassed == f_run_summary.nTestsRun - f_run_summary.nTestsFailed

\* C35: after a call of a run entry point nTestsFailed is at most nTestsRun,
\* so that the number of tests passed, nTestsRun - nTestsFailed in unsigned
\* int, does not wrap around; CU_run_test of an inactive test with
\* fail-on-inactive set included.
C35_PassedNotNegative == RunReturned => TestsPassed >= 0

\* CU_run_test of an inactive test has returned CUE_TEST_INACTIVE with one
\* test counted as failed and none as run.
C35_Witness ==
  /\ RunReturned
  /\ call.op = "CU_run_test"
  /\ call.err = "CUE_TEST_INACTIVE"
  /\ f_run_summary.nTestsInactive = 1
  /\ f_run_summary.nTestsRun = 0
  /\ f_run_summary.nTestsFailed = 1

\* pTest is one of the tests in the list of pSuite.
TestOfSuite(pSuite, pTest) == pTest \in Range(SuiteTests(pSuite))

\* The test function being executed is that of a test of the current suite.
TestRunInItsSuite == pc = "u_test" => TestOfSuite(f_pCurSuite, f_pCurTest)

ForeignTestRejected ==
  \A pSuite \in UsedSuites : \A pTest \in UsedTests :
    (/\ suites_buf[pSuite].fActive # CU_FALSE
     /\ ~TestOfSuite(pSuite, pTest)
     /\ CU_run_test(pSuite, pTest)) =>
       /\ call'.err = "CUE_TEST_NOT_IN_SUITE"
       /\ f_error_number' = "CUE_TEST_NOT_IN_SUITE"
       /\ pc' = pc
       /\ hist'.sn = NoCalls

\* C36: CU_run_test(pSuite, pTest) executes the test function only of a test
\* that is in the list of pSuite; for a test that is not, one that has the
\* name of a test of pSuite included, it returns CUE_TEST_NOT_IN_SUITE and
\* calls no function and no handler.
C36_ForeignTestRejected ==
  []TestRunInItsSuite /\ [][call'.op = "CU_run_test" => ForeignTestRejected]_vars

\* CU_run_test, given the first suite and the test of the second, which has
\* the name of the test of the first, is executing the test function.
C36_Witness ==
  /\ pc = "u_test"
  /\ fr.entry = "CU_run_test"
  /\ f_pCurSuite = 1
  /\ f_pCurTest = 2
  /\ SuiteTests(1) = <<1>>
  /\ SuiteTests(2) = <<2>>
  /\ order.tname[1] = order.tname[2]


RECURSIVE SumOfTests(_)
SumOfTests(list) ==
  IF list = <<>> THEN 0
  ELSE suites_buf[Head(list)].uiNumberOfTests + SumOfTests(Tail(list))

SuiteCountIsLength == registry.uiNumberOfSuites = Len(RegistrySuites)
TestCountIsSum == registry.uiNumberOfTests = SumOfTests(RegistrySuites)
SuiteTestCountIsLength ==
  \A s \in Range(RegistrySuites) : suites_buf[s].uiNumberOfTests = Len(SuiteTests(s))

\* C37: after any sequence of initialize, cleanup, swap, add-suite and
\* add-test calls, add-test on a suite handle obtained before a cleanup
\* included, the active registry's suite count is the length of its suite
\* list, its test count is the sum of the test counts of the suites in
\* that list, and each suite's test count is the length of its test list.
C37_CountsMatchLists ==
  f_pTestRegistry # NULL =>
    SuiteCountIsLength /\ TestCountIsSum /\ SuiteTestCountIsLength

\* A test has just been added to a suite registered before the registry was
\* initialized again, and the registry in use holds no suite.
C37_Witness ==
  /\ f_pTestRegistry # NULL
  /\ call.op = "CU_add_test"
  /\ call.err = "CUE_SUCCESS"
  /\ RegistrySuites = <<>>
  /\ SuiteTests(1) = <<1>>


RecordsEverAppended == test_run_storage_info.currFailureIndex

WithinFailurePool ==
  /\ RecordsEverAppended <= MAX_NUM_OF_TESTS
  /\ f_run_summary.nFailureRecords <= RecordsEverAppended
  /\ Len(FailureList) = f_run_summary.nFailureRecords

EmptiedAndExhausted ==
  (PoolExhausted /\ f_failure_list = NULL) => f_run_summary.nFailureRecords = 0

SlotsNeverReturned ==
  /\ RecordsEverAppended' >= RecordsEverAppended
  /\ f_run_summary'.nFailureRecords > f_run_summary.nFailureRecords =>
       /\ f_run_summary'.nFailureRecords = f_run_summary.nFailureRecords + 1
       /\ RecordsEverAppended' = RecordsEverAppended + 1
  /\ PoolExhausted => f_run_summary'.nFailureRecords <= f_run_summary.nFailureRecords

InactiveSkipped ==
  /\ f_failure_on_inactive = CU_FALSE
  /\ \/ f_run_summary'.nSuitesInactive = f_run_summary.nSuitesInactive + 1
     \/ f_run_summary'.nTestsInactive = f_run_summary.nTestsInactive + 1

\* The result code that step leaves: the code CU_run_test returns at once,
\* the result of run_single_test, or the result of run_single_suite.
ResultOfSkip ==
  IF pc' = pc THEN call'.err
  ELSE IF pc' = "st_finish" THEN fr'.st_result
  ELSE fr'.ss_result

NoRecordOfSkip ==
  /\ f_run_summary'.nFailureRecords <= f_run_summary.nFailureRecords
  /\ Len(FailureList') <= Len(FailureList)

InactiveIsNoError == InactiveSkipped => (NoRecordOfSkip /\ ResultOfSkip = "CUE_SUCCESS")

\* C39: with fail-on-inactive disabled, an inactive suite or an inactive
\* test produces neither a failure record nor a result code other than
\* success, whichever of CU_run_all_tests, CU_run_suite and CU_run_test
\* reaches it.
C39_InactiveIsNoError == [][InactiveIsNoError]_vars

\* CU_run_test has returned from an inactive test of an active suite with
\* fail-on-inactive disabled: no record, and a code other than success.
C39_Witness ==
  /\ pc = "idle"
  /\ hist.runs = 1
  /\ call.op = "CU_run_test"
  /\ f_failure_on_inactive = CU_FALSE
  /\ f_run_summary.nTestsInactive = 1
  /\ f_run_summary.nFailureRecords = 0
  /\ call.ret = "CUE_TEST_INACTIVE"


AllActive ==
  \A s \in Range(order.suites) :
    /\ suites_buf[s].fActive # CU_FALSE
    /\ \A t \in Range(order.tests[s]) : IsActiveTest(t)

\* CU_run_all_tests is about to return; nSuitesFailed counts the suites whose
\* initialization or cleanup function returned non-zero.
CleanRunDone ==
  /\ pc = "run_ret"
  /\ fr.entry = "CU_run_all_tests"
  /\ AllActive
  /\ f_run_summary.nSuitesFailed = 0

EveryTestOnce == hist.tests = Flatten(order.tests, order.suites)

====
